---------------------------- MODULE Spec2Model ----------------------------
(*
  A state-machine model of the ShipOfFools repository.

  The repository holds three implementations of the same simulation core:
    - src/social_system.py, src/event_system.py, src/character.py  (graph version)
    - src/ship_of_fools.py                                         (Ship version)
    - src/src/...                                                  (Simulation package)
  Every implementation has its own variables and its own specification
  (SpecSocial, SpecAlliance, SpecShip, SpecSim, SpecNeeds); a specification
  leaves the variables of the other implementations unchanged.

  Numbers.  Python floats are modelled as exact fixed-point integers:
    - relationship strengths in tenths      (1.0 is One = 10),
    - Ship stress / influence / needs in units of 1/Unit.
*)
EXTENDS Integers, Sequences, FiniteSets, TLC

VARIABLES
    social_graph,   \* SocialSystem.social_graph: [nodes, order, character, edges]
    socLast,        \* the last call made on the SocialSystem: [op, ..., before]
    ship,           \* the Ship object and the position inside simulate_day
    shipLast,       \* the last call made on the Ship: [op, a, b, ...] and the run's limits
    sim,            \* the Simulation object (src/src): characters, groups, leadership
    simLast,        \* the last call made on the Simulation: [op, ...]
    agent,          \* one Character used by direct update_needs calls
    agentLast,      \* the last update_needs call: [op, changes, before]
    event_system,   \* the EventSystem of src/event_system.py, its random source, its callers' lists
    event_twin,     \* a second run of the same EventSystem from the same seed
    eventLast       \* the last call made on the EventSystem: [op, ...]

socVars == <<social_graph, socLast>>
shipVars == <<ship, shipLast>>
simVars == <<sim, simLast>>
agentVars == <<agent, agentLast>>
eventVars == <<event_system, event_twin, eventLast>>

vars == <<socVars, shipVars, simVars, agentVars, eventVars>>

Max(x, y) == IF x >= y THEN x ELSE y
Min(x, y) == IF x <= y THEN x ELSE y

(***************************************************************************)
(* SocialSystem  (src/social_system.py)                                    *)
(***************************************************************************)

\* Strength 1.0 in tenths.
One == 10

\* The characters that calls may name.
Names == {"Alice", "Bob", "Charlie"}

RelationshipType == {"friendship", "conflict", "romantic", "neutral", "alliance"}

\* interaction_type arguments: the two the code knows and one it does not.
InteractionTypes == {"cooperation", "conflict", "gossip"}

\* initial_strength arguments (tenths): below range, zero, in range.
InitialStrengths == {-3, 0, 5}

\* rel_type arguments of add_relationship.
RelTypeArgs == {"neutral", "alliance"}

\* decay_rate arguments (tenths).
DecayRates == {0, 1, 3}

\* An undirected edge key u-v.
Edge(u, v) == {u, v}

has_edge(g, u, v) == Edge(u, v) \in DOMAIN g.edges

\* nx.Graph.add_edge(u, v, weight=w, rel_type=t): creates or overwrites.
add_edge(g, u, v, w, t) ==
    [g EXCEPT !.edges =
        [e \in (DOMAIN g.edges) \cup {Edge(u, v)} |->
            IF e = Edge(u, v) THEN [weight |-> w, rel_type |-> t]
            ELSE g.edges[e]]]

\* nx.Graph.remove_edges_from(es)
remove_edges_from(g, es) ==
    [g EXCEPT !.edges = [e \in (DOMAIN g.edges) \ es |-> g.edges[e]]]

\* Character(name, ..., big_five_traits): the name and the EXTRAVERSION trait
\* (tenths) are what the SocialSystem reads.
SocialCharacter(name, extraversion) == [name |-> name, extraversion |-> extraversion]

\* nx.Graph(): nodes in insertion order, each with its `character` attribute.
EmptyGraph == [nodes |-> {}, order |-> <<>>, character |-> <<>>, edges |-> <<>>]

\* nx.Graph.add_node(name, character=character) for a name that is not a node.
add_node(g, name, character) ==
    [g EXCEPT !.nodes = g.nodes \cup {name},
              !.order = Append(g.order, name),
              !.character = [n \in g.nodes \cup {name} |->
                                IF n = name THEN character ELSE g.character[n]]]

\* A variant of SocialSystem.add_character that stores the new object for a
\* name that is already a node.
add_character_replacing(g, character) ==
    IF character.name \in g.nodes
    THEN [g EXCEPT !.character[character.name] = character]
    ELSE add_node(g, character.name, character)

\* SocialSystem.add_character
add_character(g, character) ==
    IF character.name \in g.nodes THEN g
    ELSE add_node(g, character.name, character)

\* SocialSystem.add_relationship: the strength is stored as given.
add_relationship(g, c1, c2, initial_strength, rel_type) ==
    IF c1 \notin g.nodes \/ c2 \notin g.nodes THEN g
    ELSE add_edge(g, c1, c2, initial_strength, rel_type)

\* change and rel_type_change of update_relationship ("none" is Python's None).
InteractionChange(t) ==
    IF t = "cooperation" THEN 2 ELSE IF t = "conflict" THEN -3 ELSE 0

InteractionRelType(t) ==
    IF t = "cooperation" THEN "friendship"
    ELSE IF t = "conflict" THEN "conflict" ELSE "none"

\* A variant of the clamp without the ceiling.
ClampAtZero(x) == Max(0, x)

Clamp01(x) == Max(0, Min(One, x))

\* A variant of SocialSystem.update_relationship that always writes the type
\* the interaction implies.
update_relationship_retyping(g, c1, c2, t) ==
    IF has_edge(g, c1, c2)
    THEN [g EXCEPT !.edges[Edge(c1, c2)] =
            [weight |-> Clamp01(g.edges[Edge(c1, c2)].weight + InteractionChange(t)),
             rel_type |-> IF InteractionRelType(t) # "none" THEN InteractionRelType(t)
                          ELSE "neutral"]]
    ELSE add_relationship(g, c1, c2, Clamp01(InteractionChange(t)),
                          IF InteractionRelType(t) # "none" THEN InteractionRelType(t)
                          ELSE "neutral")

\* SocialSystem.update_relationship
update_relationship(g, c1, c2, t) ==
    LET change == InteractionChange(t)
        rtc    == InteractionRelType(t)
    IN  IF has_edge(g, c1, c2)
        THEN LET cur == g.edges[Edge(c1, c2)]
                 new_strength == Clamp01(cur.weight + change)
                 new_type == IF cur.rel_type = "neutral" /\ rtc # "none"
                             THEN rtc ELSE cur.rel_type
             IN  [g EXCEPT !.edges[Edge(c1, c2)] =
                        [weight |-> new_strength, rel_type |-> new_type]]
        ELSE add_relationship(g, c1, c2, Clamp01(change),
                              IF rtc # "none" THEN rtc ELSE "neutral")

\* A variant of the new strength that never falls below a tenth.
DecayedStrengthAboveZero(w, decay_rate) == Max(1, w - decay_rate)

\* The new strength decay_relationships writes to one edge.
DecayedStrength(w, decay_rate) == Max(0, w - decay_rate)

\* A variant of SocialSystem.decay_relationships that keeps the edges it has
\* brought to 0.
decay_relationships_keeping_zero(g, decay_rate) ==
    [g EXCEPT !.edges =
        [e \in DOMAIN g.edges |->
            [g.edges[e] EXCEPT !.weight = DecayedStrength(g.edges[e].weight, decay_rate)]]]

\* SocialSystem.decay_relationships
decay_relationships(g, decay_rate) ==
    LET decayed == [g EXCEPT !.edges =
                      [e \in DOMAIN g.edges |->
                          [g.edges[e] EXCEPT
                              !.weight = DecayedStrength(g.edges[e].weight, decay_rate)]]]
        edges_to_remove == {e \in DOMAIN decayed.edges : decayed.edges[e].weight = 0}
    IN  remove_edges_from(decayed, edges_to_remove)

SocStep(A) == A /\ UNCHANGED <<socLast, shipVars, simVars, agentVars, eventVars>>

AddCharacter ==
    SocStep(\E c \in Names :
        social_graph' = add_character(social_graph, SocialCharacter(c, One \div 2)))

AddRelationship ==
    SocStep(\E c1 \in Names : \E c2 \in Names \ {c1}, s \in InitialStrengths, t \in RelTypeArgs :
        social_graph' = add_relationship(social_graph, c1, c2, s, t))

UpdateRelationship ==
    SocStep(\E c1 \in Names : \E c2 \in Names \ {c1}, t \in InteractionTypes :
        social_graph' = update_relationship(social_graph, c1, c2, t))

DecayRelationships ==
    SocStep(\E r \in DecayRates :
        social_graph' = decay_relationships(social_graph, r))

SocNext ==
    \/ AddCharacter
    \/ AddRelationship
    \/ UpdateRelationship
    \/ DecayRelationships

\* SocialSystem.get_relationships: neighbor -> [strength, type]; the empty
\* dict for a name that is not in the graph.
get_relationships(g, character_name) ==
    IF character_name \notin g.nodes THEN <<>>
    ELSE [neighbor \in {n \in g.nodes : n # character_name /\ has_edge(g, character_name, n)} |->
            [strength |-> g.edges[Edge(character_name, neighbor)].weight,
             type |-> g.edges[Edge(character_name, neighbor)].rel_type]]

\* The strengths the edges of a graph were given by add_relationship (tenths).
DecayWeights == {-3, 0, 1, 5, 10}

NoSocCall == [op |-> "none", rate |-> 0, before |-> EmptyGraph]

\* The graphs over Names whose edges add_relationship has set with the given
\* strengths and types.
GraphsOver(weights, types) ==
    LET pairs == {Edge(u, v) : u \in Names, v \in Names} \ {{n} : n \in Names}
        data == [weight : weights, rel_type : types]
        order == <<"Alice", "Bob", "Charlie">>
        character == [n \in Names |-> SocialCharacter(n, One \div 2)]
    IN  UNION {{[nodes |-> Names, order |-> order, character |-> character,
                 edges |-> d] : d \in [present -> data]} :
                    present \in SUBSET pairs}

BuiltGraphs == GraphsOver(DecayWeights, {"neutral"})

\* social_system.decay_relationships(rate), the only call main_simulation_loop
\* makes on a day without interactions; the rate is the same in every call.
DecayAgain ==
    /\ social_graph' = decay_relationships(social_graph, socLast.rate)
    /\ socLast' = [socLast EXCEPT !.op = "decay_relationships", !.before = social_graph]
    /\ UNCHANGED <<shipVars, simVars, agentVars, eventVars>>

DecayNext == DecayAgain

MaxInteractions == 2  \* update_relationship is called at most this many times

\* The strengths (tenths) and types add_relationship gave the edges before the
\* interactions.
InteractionWeights == {-3, 5, 9}
InteractionRelTypes == {"neutral", "alliance"}

NoInteraction ==
    [op |-> "none", before |-> EmptyGraph,
     a |-> "", b |-> "", t |-> "", n |-> 0]

\* social_system.update_relationship(c1, c2, interaction_type)
Interact ==
    /\ socLast.n < MaxInteractions
    /\ \E c1 \in Names : \E c2 \in Names \ {c1}, t \in InteractionTypes :
          /\ social_graph' = update_relationship(social_graph, c1, c2, t)
          /\ socLast' = [op |-> "update_relationship", before |-> social_graph,
                          a |-> c1, b |-> c2, t |-> t, n |-> socLast.n + 1]
    /\ UNCHANGED <<shipVars, simVars, agentVars, eventVars>>

InteractNext == Interact

\* EXTRAVERSION traits (tenths) of the Character objects passed to add_character.
Extraversions == {0, 10}

\* nx.Graph.degree(node): a self-loop counts twice.
degree(g, node) ==
    Cardinality({e \in DOMAIN g.edges : node \in e})
        + (IF {node} \in DOMAIN g.edges THEN 1 ELSE 0)

\* influencers[node] of get_most_influential_character (tenths).
InfluenceScore(g, node) == One * degree(g, node) + g.character[node].extraversion

\* The positions of g.order whose score no other node exceeds.
TopPositions(g) ==
    {i \in 1..Len(g.order) :
        \A j \in 1..Len(g.order) :
            InfluenceScore(g, g.order[j]) <= InfluenceScore(g, g.order[i])}

\* A variant of get_most_influential_character that takes the last of the
\* nodes with the highest score.
get_most_influential_character_last(g) ==
    IF g.nodes = {} THEN {}
    ELSE LET i == CHOOSE i \in TopPositions(g) : \A j \in TopPositions(g) : j <= i
         IN  {g.character[g.order[i]]}

\* SocialSystem.get_most_influential_character: max(influencers,
\* key=influencers.get) is the first key of the dict with the highest value.
\* The Optional[Character] result is the set of the returned characters,
\* empty for None.
get_most_influential_character(g) ==
    IF g.nodes = {} THEN {}
    ELSE LET i == CHOOSE i \in TopPositions(g) : \A j \in TopPositions(g) : i <= j
         IN  {g.character[g.order[i]]}

NoGraphCall ==
    [op |-> "none", before |-> EmptyGraph, character |-> "None",
     a |-> "", b |-> "", raised |-> "none", result |-> {}]

\* social_system.add_character(Character(name, ...))
CallAddCharacter ==
    /\ \E name \in Names, x \in Extraversions :
          /\ social_graph' = add_character(social_graph, SocialCharacter(name, x))
          /\ socLast' = [NoGraphCall EXCEPT !.op = "add_character",
                                            !.before = social_graph,
                                            !.character = SocialCharacter(name, x)]
    /\ UNCHANGED <<shipVars, simVars, agentVars, eventVars>>

\* social_system.add_relationship(c1, c2): the method has no raise statement
\* and the calls it makes on a missing name are not reached, so the call
\* returns.
CallAddRelationship ==
    /\ \E c1 \in Names, c2 \in Names :
          /\ social_graph' = add_relationship(social_graph, c1, c2, One \div 2, "neutral")
          /\ socLast' = [NoGraphCall EXCEPT !.op = "add_relationship",
                                            !.before = social_graph,
                                            !.a = c1, !.b = c2, !.raised = "none"]
    /\ UNCHANGED <<shipVars, simVars, agentVars, eventVars>>

\* leader = social_system.get_most_influential_character()
CallGetMostInfluentialCharacter ==
    /\ social_graph' = social_graph
    /\ socLast' = [NoGraphCall EXCEPT !.op = "get_most_influential_character",
                                      !.before = social_graph,
                                      !.result = get_most_influential_character(social_graph)]
    /\ UNCHANGED <<shipVars, simVars, agentVars, eventVars>>

GraphNext ==
    \/ CallAddCharacter
    \/ CallAddRelationship
    \/ CallGetMostInfluentialCharacter


(***************************************************************************)
(* Character, Need, Memory, Alliance  (src/ship_of_fools.py)               *)
(***************************************************************************)

\* Fixed-point unit of the Ship's floats: a stress, influence or need value v
\* is stored as v * Unit.  danger_level / 20, / 30 and / 40 are whole numbers
\* of 1/432 for every even heading.
Unit == 432

Scaled(v) == v * Unit

\* Whether `event_keyword.lower() in event.lower()`, for the keywords asked
\* about and the descriptions of the events.
Mentions(event_keyword, event) ==
    \/ event_keyword = "FOOD" /\ event = "Someone stole food from the kitchen"
    \/ event_keyword = "fight" /\ event = "A fight broke out between crew members"
    \/ event_keyword = "cold" /\ event = "Blankets are running out due to extreme cold"

\* Need(name, value): critical_threshold keeps its default, 30.
Need(name, value) ==
    [name |-> name, value |-> Scaled(value), critical_threshold |-> Scaled(30)]

\* A variant of is_critical that includes the threshold itself.
is_critical_inclusive(need) == need.value <= need.critical_threshold

\* Need.is_critical
is_critical(need) == need.value < need.critical_threshold

\* The names of a needs dict (a sequence of Need records in insertion order).
NeedNames(needs) == {needs[i].name : i \in 1..Len(needs)}

\* A variant of the stored value that is only capped from above.
ClampNeedAbove(v) == Min(Scaled(100), v)

\* The value update_needs stores for one need.
ClampNeed(v) == Min(Scaled(100), Max(0, v))

\* A variant of update_needs that does nothing when a name is unknown.
update_needs_rejecting(c, changes) ==
    IF DOMAIN changes \subseteq NeedNames(c.needs)
    THEN [c EXCEPT !.needs =
            [i \in 1..Len(c.needs) |->
                IF c.needs[i].name \in DOMAIN changes
                THEN [c.needs[i] EXCEPT
                        !.value = ClampNeed(c.needs[i].value + changes[c.needs[i].name])]
                ELSE c.needs[i]]]
    ELSE c

\* Character.update_needs(changes): changes is a dict name -> delta.
update_needs(c, changes) ==
    [c EXCEPT !.needs =
        [i \in 1..Len(c.needs) |->
            IF c.needs[i].name \in DOMAIN changes
            THEN [c.needs[i] EXCEPT
                    !.value = ClampNeed(c.needs[i].value + changes[c.needs[i].name])]
            ELSE c.needs[i]]]

\* Character.get_critical_needs: names in insertion order.
get_critical_needs(c) ==
    LET crit == SelectSeq(c.needs, is_critical)
    IN  [i \in 1..Len(crit) |-> crit[i].name]

SeqToSet(q) == {q[i] : i \in 1..Len(q)}

\* The stress add_memory stores.
ClampStress(v) == Min(Scaled(100), Max(0, v))

\* Character.recall_event: a new list of the memories that mention the keyword.
recall_event(c, event_keyword) ==
    SelectSeq(c.memories, LAMBDA m : Mentions(event_keyword, m.event))

\* A variant of Character.add_memory that keeps only the newest memory.
add_memory_forgetting(c, day, event, interpretation, emotional_impact, witnesses) ==
    [c EXCEPT
        !.memories = <<[day |-> day, event |-> event, interpretation |-> interpretation,
             emotional_impact |-> emotional_impact, witnesses |-> witnesses]>>,
        !.stress = Min(Scaled(100), Max(0, c.stress + emotional_impact \div 2))]

\* Character.add_memory; emotional_impact is scaled, 0.5 * impact is exact.
add_memory(c, day, event, interpretation, emotional_impact, witnesses) ==
    [c EXCEPT
        !.memories = Append(c.memories,
            [day |-> day, event |-> event, interpretation |-> interpretation,
             emotional_impact |-> emotional_impact, witnesses |-> witnesses]),
        !.stress = ClampStress(c.stress + emotional_impact \div 2)]

\* Alliance.__init__
NewAlliance(members, purpose) ==
    [members |-> members, purpose |-> purpose, strength |-> 50,
     created_day |-> 0, broken |-> FALSE]

\* A variant of Alliance.add_member that strengthens the alliance only for a
\* character that was not a member.
add_member_strengthening_once(a, char_id) ==
    [a EXCEPT !.members = a.members \cup {char_id},
              !.strength = IF char_id \in a.members THEN a.strength ELSE a.strength + 5]

\* A variant of Alliance.add_member that reactivates the alliance.
add_member_reactivating(a, char_id) ==
    [a EXCEPT !.members = a.members \cup {char_id}, !.strength = a.strength + 5,
              !.broken = FALSE]

\* Alliance.add_member
add_member(a, char_id) ==
    [a EXCEPT !.members = a.members \cup {char_id}, !.strength = a.strength + 5]

\* A variant of Alliance.remove_member that never flags the alliance.
remove_member_unflagged(a, char_id) ==
    [a EXCEPT !.members = a.members \ {char_id}, !.strength = a.strength - 10]

\* Alliance.remove_member
remove_member(a, char_id) ==
    LET members == a.members \ {char_id}
    IN  [a EXCEPT !.members = members,
                  !.strength = a.strength - 10,
                  !.broken = IF Cardinality(members) < 2 THEN TRUE ELSE a.broken]

\* Character(...) with the dataclass defaults for memories and alliances.
Character(id, name, role, groups, ideology, needs, stress, influence, speaking_ability) ==
    [id |-> id, name |-> name, role |-> role, groups |-> groups,
     ideology |-> ideology, needs |-> needs, stress |-> Scaled(stress),
     trust_in_captain |-> Scaled(70), memories |-> <<>>, alliances |-> {},
     speaking_ability |-> speaking_ability, influence |-> Scaled(influence)]

\* Ship.create_default_characters
DefaultCharacter(id) ==
    CASE id = 1 -> Character(1, "Captain", "captain", {"authority"}, "authoritarian",
                     <<Need("power", 90), Need("respect", 80)>>, 20, 90, 80)
      [] id = 2 -> Character(2, "Third Officer", "officer", {"authority"}, "liberal",
                     <<Need("power", 70), Need("manipulation", 80)>>, 15, 70, 85)
      [] id = 3 -> Character(3, "English Sailor", "worker", {"workers"}, "reformist",
                     <<Need("wage", 40), Need("safety", 50), Need("warmth", 45)>>, 60, 40, 50)
      [] id = 4 -> Character(4, "Mexican Sailor", "worker", {"workers", "indigenous"},
                     "revolutionary",
                     <<Need("wage", 25), Need("equality", 20), Need("language_rights", 30)>>,
                     70, 35, 45)
      [] id = 5 -> Character(5, "Woman Passenger", "passenger", {"women"}, "liberal",
                     <<Need("warmth", 30), Need("equality", 40), Need("safety", 60)>>,
                     65, 45, 60)
      [] id = 6 -> Character(6, "Native Sailor", "worker", {"indigenous", "workers"},
                     "revolutionary",
                     <<Need("reparations", 10), Need("autonomy", 20), Need("wage", 35)>>,
                     75, 30, 40)
      [] id = 7 -> Character(7, "Boatswain (Lostromo)", "worker", {"lgbtq", "workers"},
                     "liberal",
                     <<Need("dignity", 40), Need("acceptance", 35), Need("wage", 45)>>,
                     68, 38, 55)
      [] id = 8 -> Character(8, "Animal Rights Activist", "passenger", {"religious"},
                     "liberal",
                     <<Need("animal_welfare", 25), Need("morality", 50)>>, 72, 25, 65)
      [] id = 9 -> Character(9, "Professor", "intellectual", {"authority"}, "revolutionary",
                     <<Need("justice", 30), Need("revolution", 40)>>, 55, 60, 90)
      [] OTHER  -> Character(10, "Steward", "worker", {"workers"}, "anarchist",
                     <<Need("survival", 70), Need("truth", 60)>>, 80, 20, 70)

(***************************************************************************)
(* Ship  (src/ship_of_fools.py)                                            *)
(***************************************************************************)

\* Bounds of the Ship model.
MaxDay == 2           \* simulate_day is called while day <= MaxDay
MaxEvents == 1        \* events generated in one run
MaxDiscussions == 1   \* philosophical discussions held in one run
MaxAlliances == 2     \* alliances created in one run
MaxFormations == 1    \* pairs allied by _character_interactions in one run
MaxStrength == 60     \* a call that would raise an alliance strength above it is not taken
MinStrength == 10     \* a call that would lower an alliance strength below it is not taken
MaxCalls == 5         \* alliance operations called one at a time in one run
MaxWeakenCalls == 6   \* the same, in a run that never calls add_member directly
MaxVoyageDays == 9    \* simulate_day is called while day <= MaxVoyageDays on a quiet voyage
MaxVoyageEvents == 2  \* events generated on an eventful voyage

\* The roster of the day-by-day specification, in list order: five of the
\* default characters.
TickRoster == <<1, 4, 5, 6, 10>>

\* The roster of the alliance specification.
AllianceRoster == <<4, 6, 9, 10>>

\* random.uniform(-5, 5) in _update_alliances, drawn from these values.
StrengthSteps == {-5, 5}

\* random.choice(['ideology', 'identity', 'grievances']), drawn from these.
PurposeDraws == {"Shared grievances"}

\* randint(1, 3) in _captain_makes_concessions, drawn from these values.
ConcessionCounts == {1}

IncidentTypes == {"theft", "fight", "accident", "dog_abuse"}

\* Ship.__init__, then add_character for every id of `order`.
NewShip(order) ==
    [day |-> 1, heading |-> 0, danger_level |-> 0, temperature |-> Scaled(15),
     captain_authority |-> 100,
     order |-> order,
     characters |-> [id \in SeqToSet(order) |-> DefaultCharacter(id)],
     events |-> <<>>, alliances |-> <<>>,
     pc |-> "idle", idx |-> 0, discussions |-> 0]

Ids(s) == SeqToSet(s.order)

\* Ship.calculate_danger (scaled: danger_level * Unit = (360 - heading) * 120).
calculate_danger(s) ==
    LET danger == (360 - s.heading) * 120
    IN  [s EXCEPT !.danger_level = danger,
                  !.temperature = Scaled(15) - (danger * 20) \div 100]

\* Ship._apply_environmental_effects: stress is added to, not clamped.
EnvironmentalEffect(s, c) ==
    LET c1 == IF "warmth" \in NeedNames(c.needs)
              THEN update_needs(c, [n \in {"warmth"} |-> -(s.danger_level \div 20)])
              ELSE c
        c2 == IF "safety" \in NeedNames(c1.needs)
              THEN update_needs(c1, [n \in {"safety"} |-> -(s.danger_level \div 30)])
              ELSE c1
    IN  [c2 EXCEPT !.stress = c2.stress + s.danger_level \div 40]

apply_environmental_effects(s) ==
    [s EXCEPT !.characters = [id \in Ids(s) |-> EnvironmentalEffect(s, s.characters[id])]]

\* Ship._create_incident / _create_scarcity_event; total is abs(sum(impact.values())).
CreateEvent(day, type) ==
    CASE type = "theft" ->
            [day |-> day, type |-> "theft",
             description |-> "Someone stole food from the kitchen",
             affected_groups |-> {"workers", "authority"}, total |-> 5]
      [] type = "fight" ->
            [day |-> day, type |-> "fight",
             description |-> "A fight broke out between crew members",
             affected_groups |-> {"workers"}, total |-> 3]
      [] type = "dog_abuse" ->
            [day |-> day, type |-> "dog_abuse",
             description |-> "The dog was kicked by an officer",
             affected_groups |-> {"religious", "authority"}, total |-> 2]
      [] type = "scarcity" ->
            [day |-> day, type |-> "scarcity",
             description |-> "Blankets are running out due to extreme cold",
             affected_groups |-> {"women", "workers"}, total |-> 3]
      [] OTHER ->
            [day |-> day, type |-> "accident",
             description |-> "A worker was injured on deck",
             affected_groups |-> {"workers"}, total |-> 2]

\* A variant of Ship._generate_interpretation that ignores the ideology.
generate_interpretation_flat(ideology) == "This is concerning."

\* Ship._generate_interpretation
generate_interpretation(ideology) ==
    CASE ideology = "authoritarian" -> "This disrupts order. Authority must be maintained."
      [] ideology = "revolutionary" -> "This is systemic oppression. We must resist!"
      [] ideology = "liberal" -> "This violates individual rights. We need reform."
      [] ideology = "conservative" -> "This shows moral decay. Return to tradition."
      [] ideology = "reformist" -> "This shows we need gradual improvements."
      [] ideology = "anarchist" -> "This proves all hierarchy is corrupt."
      [] OTHER -> "This is concerning."

Affected(c, event) == c.groups \cap event.affected_groups # {}

\* Ship._process_event; `witnesses` is the list every affected character draws.
process_event(s, event, witnesses) ==
    [s EXCEPT
        !.events = Append(s.events, event),
        !.characters = [id \in Ids(s) |->
            IF Affected(s.characters[id], event)
            THEN add_memory(s.characters[id], s.day, event.description,
                            generate_interpretation(s.characters[id].ideology),
                            Scaled(event.total), witnesses)
            ELSE s.characters[id]]]

\* The witness lists drawn: nobody, or everybody in list order.
WitnessDraws(s) == {<<>>, s.order}

\* A variant of the candidates that excludes neither char nor its allies.
PotentialAlliesAnyone(s, id) ==
    {o \in Ids(s) :
        \/ s.characters[id].ideology = s.characters[o].ideology
        \/ s.characters[id].groups \cap s.characters[o].groups # {}}

\* Ship._find_potential_ally: the candidates of char.
PotentialAllies(s, id) ==
    {o \in Ids(s) :
        /\ o # id
        /\ o \notin s.characters[id].alliances
        /\ \/ s.characters[id].ideology = s.characters[o].ideology
           \/ s.characters[id].groups \cap s.characters[o].groups # {}}

\* A variant of the search of _form_alliance that keeps the last alliance
\* holding either character.
LastAllianceOf(s, c1, c2) ==
    LET hits == {i \in 1..Len(s.alliances) :
                    c1 \in s.alliances[i].members \/ c2 \in s.alliances[i].members}
    IN  IF hits = {} THEN 0 ELSE CHOOSE i \in hits : \A j \in hits : j <= i

\* The index of the first alliance holding c1 or c2, 0 when there is none.
FirstAllianceOf(s, c1, c2) ==
    LET hits == {i \in 1..Len(s.alliances) :
                    c1 \in s.alliances[i].members \/ c2 \in s.alliances[i].members}
    IN  IF hits = {} THEN 0 ELSE CHOOSE i \in hits : \A j \in hits : i <= j

\* A variant of Ship._form_alliance that never looks for an existing alliance.
form_alliance_always_new(s, c1, c2, purpose) ==
    [s EXCEPT
        !.characters = [s.characters EXCEPT
                    ![c1].alliances = s.characters[c1].alliances \cup {c2},
                    ![c2].alliances = s.characters[c2].alliances \cup {c1}],
        !.alliances = Append(s.alliances,
                    [NewAlliance({c1, c2}, purpose) EXCEPT !.created_day = s.day])]

\* Ship._form_alliance
form_alliance(s, c1, c2, purpose) ==
    LET chars == [s.characters EXCEPT
                    ![c1].alliances = s.characters[c1].alliances \cup {c2},
                    ![c2].alliances = s.characters[c2].alliances \cup {c1}]
        i == FirstAllianceOf(s, c1, c2)
    IN  IF i # 0
        THEN [s EXCEPT !.characters = chars,
                       !.alliances[i] = add_member(add_member(s.alliances[i], c1), c2)]
        ELSE [s EXCEPT !.characters = chars,
                       !.alliances = Append(s.alliances,
                            [NewAlliance({c1, c2}, purpose) EXCEPT !.created_day = s.day])]

\* One alliance's turn in Ship._update_alliances; draw is [perturb, delta].
UpdateAlliance(a, draw) ==
    IF a.broken \/ ~draw.perturb THEN a
    ELSE LET strength == a.strength + draw.delta
         IN  [a EXCEPT !.strength = strength,
                       !.broken = IF strength < 20 THEN TRUE ELSE a.broken]

\* Ship._update_alliances
update_alliances(s, draws) ==
    [s EXCEPT !.alliances =
        [i \in 1..Len(s.alliances) |-> UpdateAlliance(s.alliances[i], draws[i])]]

UpdateDraws ==
    {[perturb |-> FALSE, delta |-> 0]}
        \cup {[perturb |-> TRUE, delta |-> d] : d \in StrengthSteps}

\* The pairs _form_alliance has allied.
FormedPairs(s) ==
    UNION {{{a, b} : b \in s.characters[a].alliances} : a \in Ids(s)}

StrengthsInRange(s) ==
    \A i \in 1..Len(s.alliances) :
        /\ s.alliances[i].strength <= MaxStrength
        /\ s.alliances[i].strength >= MinStrength

RECURSIVE SumStress(_, _)
\* sum(c.stress for c in characters[ids])
SumStress(s, ids) ==
    IF ids = {} THEN 0
    ELSE LET id == CHOOSE x \in ids : TRUE
         IN  s.characters[id].stress + SumStress(s, ids \ {id})

\* The protesters of _organize_protest (and the characters counted by
\* _check_protest_conditions).
Protesters(s) ==
    {id \in Ids(s) :
        /\ s.characters[id].role # "captain"
        /\ get_critical_needs(s.characters[id]) # <<>>}

\* Ship._check_protest_conditions: avg_stress > 60 is sum > 60 * len.
check_protest_conditions(s) ==
    /\ Cardinality(Protesters(s)) >= 3
    /\ SumStress(s, Ids(s)) > Scaled(60) * Len(s.order)

Demands(s) ==
    UNION {SeqToSet(get_critical_needs(s.characters[id])) : id \in Protesters(s)}

\* Ship._captain_makes_concessions: the samples random.sample can return.
ConcessionDraws(s) ==
    {d \in SUBSET Demands(s) :
        \E k \in ConcessionCounts : Cardinality(d) = Min(Cardinality(Demands(s)), k)}

\* next(c for c in characters if "steward" in c.name.lower()): 0 is None.
StewardOf(s) ==
    LET hits == {i \in 1..Len(s.order) : s.characters[s.order[i]].name = "Steward"}
    IN  IF hits = {} THEN 0
        ELSE s.order[CHOOSE i \in hits : \A j \in hits : i <= j]

\* The protesters' loop of _organize_protest for one protester.
Concede(c, concessions) ==
    LET granted == update_needs(c, [n \in concessions |-> Scaled(10)])
    IN  [granted EXCEPT !.stress = granted.stress - Scaled(5)]

\* The steward's warning of _organize_protest.
StewardWarning(c) ==
    [c EXCEPT !.stress = c.stress + Scaled(10), !.influence = c.influence - Scaled(5)]

\* Ship._organize_protest
organize_protest(s, concessions) ==
    IF Protesters(s) = {} THEN s
    ELSE LET s1 == IF concessions # {}
                   THEN [s EXCEPT
                           !.captain_authority = s.captain_authority - 5,
                           !.characters = [id \in Ids(s) |->
                               IF id \in Protesters(s)
                               THEN Concede(s.characters[id], concessions)
                               ELSE s.characters[id]]]
                   ELSE s
             steward == StewardOf(s1)
         IN  IF steward # 0
             THEN [s1 EXCEPT !.characters[steward] = StewardWarning(s1.characters[steward])]
             ELSE s1

Radical(c) == c.ideology \in {"revolutionary", "anarchist"}

\* Ship._check_mutiny_conditions
check_mutiny_conditions(s) ==
    /\ ~(s.captain_authority > 40)
    /\ Cardinality({id \in Ids(s) :
            Radical(s.characters[id]) /\ s.characters[id].stress > Scaled(70)}) >= 3
    /\ s.danger_level > Scaled(60)

Mutineers(s) ==
    {id \in Ids(s) : Radical(s.characters[id]) /\ s.characters[id].role # "captain"}

\* support_count of _attempt_mutiny
SupportCount(s) ==
    Cardinality({id \in Ids(s) :
        /\ s.characters[id].trust_in_captain < Scaled(30)
        /\ s.characters[id].role # "captain"})

\* A variant of the penalty that also costs the mutineer's trust in the captain.
MutinyPenaltyLosingTrust(c) ==
    [c EXCEPT !.stress = c.stress + Scaled(15), !.influence = c.influence - Scaled(10),
              !.trust_in_captain = Max(0, c.trust_in_captain - Scaled(50))]

\* The failed-mutiny penalty of one mutineer.
MutinyPenalty(c) ==
    [c EXCEPT !.stress = c.stress + Scaled(15), !.influence = c.influence - Scaled(10)]

\* A variant of Ship._attempt_mutiny whose failure penalises every character
\* but the captain.
attempt_mutiny_penalising_all(s) ==
    IF 2 * SupportCount(s) > Len(s.order)
    THEN [s EXCEPT !.captain_authority = 0, !.heading = 180]
    ELSE [s EXCEPT !.characters = [id \in Ids(s) |->
            IF s.characters[id].role # "captain" THEN MutinyPenalty(s.characters[id])
            ELSE s.characters[id]]]

\* Ship._attempt_mutiny: support_count > len(characters) / 2.  With no mutineer
\* max(mutineers) raises ValueError after captain_authority = 0.
attempt_mutiny(s) ==
    IF 2 * SupportCount(s) > Len(s.order)
    THEN IF Mutineers(s) = {}
         THEN [s EXCEPT !.captain_authority = 0, !.pc = "ValueError"]
         ELSE [s EXCEPT !.captain_authority = 0, !.heading = 180]
    ELSE [s EXCEPT !.characters = [id \in Ids(s) |->
            IF id \in Mutineers(s) THEN MutinyPenalty(s.characters[id])
            ELSE s.characters[id]]]

\* The speakers random.sample can return in _philosophical_discussion.
SpeakerSamples(s) ==
    {sp \in SUBSET {id \in Ids(s) : s.characters[id].speaking_ability > 40} :
        Cardinality(sp) = Min(3, Len(s.order))}

\* Ship._philosophical_discussion
philosophical_discussion(s, speakers) ==
    [s EXCEPT !.characters = [id \in Ids(s) |->
        IF id \in speakers
        THEN [s.characters[id] EXCEPT !.influence = s.characters[id].influence + Scaled(2)]
        ELSE s.characters[id]]]

(***************************************************************************)
(* Ship.simulate_day, one action per phase                                 *)
(***************************************************************************)

\* No call yet; limit, days, events, discussions and formations are the
\* numbers of calls, days, events, discussions and allied pairs of the run.
NoShipCall ==
    [op |-> "none", a |-> 0, b |-> 0, inA |-> FALSE, inB |-> FALSE, n |-> 0, calls |-> 0,
     limit |-> MaxCalls, days |-> MaxDay, events |-> MaxEvents,
     discussions |-> MaxDiscussions, formations |-> MaxFormations]

ShipFrame == UNCHANGED <<socVars, simVars, agentVars, eventVars>>

\* simulate_day up to and including _apply_environmental_effects.
BeginDay ==
    /\ ship.pc = "idle"
    /\ ship.day <= shipLast.days
    /\ LET s1 == calculate_danger([ship EXCEPT !.heading = Max(0, ship.heading - 2)])
       IN  ship' = [apply_environmental_effects(s1) EXCEPT !.pc = "events"]
    /\ UNCHANGED shipLast
    /\ ShipFrame

\* Ship._generate_daily_events: an incident (or none), then scarcity (or none).
GenerateDailyEvents ==
    /\ ship.pc = "events"
    /\ \E incident \in IncidentTypes \cup {"none"}, scarcity \in BOOLEAN :
       \E w1 \in WitnessDraws(ship), w2 \in WitnessDraws(ship) :
          /\ scarcity => ship.temperature < Scaled(5)
          /\ incident = "none" => w1 = <<>>
          /\ ~scarcity => w2 = <<>>
          /\ Len(ship.events) + (IF incident = "none" THEN 0 ELSE 1)
                + (IF scarcity THEN 1 ELSE 0) <= shipLast.events
          /\ LET s1 == IF incident = "none" THEN ship
                       ELSE process_event(ship, CreateEvent(ship.day, incident), w1)
                 s2 == IF scarcity
                       THEN process_event(s1, CreateEvent(ship.day, "scarcity"), w2)
                       ELSE s1
             IN  ship' = [s2 EXCEPT !.pc = "interact", !.idx = 1]
    /\ UNCHANGED shipLast
    /\ ShipFrame

\* One character's turn in Ship._character_interactions.
CharacterInteraction ==
    /\ ship.pc = "interact"
    /\ LET char == ship.order[ship.idx]
           next == IF ship.idx = Len(ship.order)
                   THEN [pc |-> "alliances", idx |-> 0]
                   ELSE [pc |-> "interact", idx |-> ship.idx + 1]
       IN  \/ ship' = [ship EXCEPT !.pc = next.pc, !.idx = next.idx]
           \/ \E ally \in PotentialAllies(ship, char), purpose \in PurposeDraws :
                LET s1 == form_alliance(ship, char, ally, purpose)
                IN  /\ Len(s1.alliances) <= MaxAlliances
                    /\ Cardinality(FormedPairs(s1)) <= shipLast.formations
                    /\ StrengthsInRange(s1)
                    /\ ship' = [s1 EXCEPT !.pc = next.pc, !.idx = next.idx]
    /\ UNCHANGED shipLast
    /\ ShipFrame

\* Ship._update_alliances
UpdateAlliances ==
    /\ ship.pc = "alliances"
    /\ \E draws \in [1..Len(ship.alliances) -> UpdateDraws] :
          LET s1 == update_alliances(ship, draws)
          IN  /\ StrengthsInRange(s1)
              /\ ship' = [s1 EXCEPT !.pc = "discussion"]
    /\ UNCHANGED shipLast
    /\ ShipFrame

\* if random.random() < 0.3: self._philosophical_discussion()
\* random.sample raises ValueError when fewer speakers are eligible than asked for.
PhilosophicalDiscussion ==
    /\ ship.pc = "discussion"
    /\ \/ ship' = [ship EXCEPT !.pc = "protest"]
       \/ /\ ship.discussions < shipLast.discussions
          /\ IF SpeakerSamples(ship) = {}
             THEN ship' = [ship EXCEPT !.pc = "raised"]
             ELSE \E speakers \in SpeakerSamples(ship) :
                    ship' = [philosophical_discussion(ship, speakers) EXCEPT
                                !.pc = "protest", !.discussions = ship.discussions + 1]
    /\ UNCHANGED shipLast
    /\ ShipFrame

\* if self._check_protest_conditions(): self._organize_protest()
Protest ==
    /\ ship.pc = "protest"
    /\ IF check_protest_conditions(ship)
       THEN \E concessions \in ConcessionDraws(ship) :
                ship' = [organize_protest(ship, concessions) EXCEPT !.pc = "mutiny"]
       ELSE ship' = [ship EXCEPT !.pc = "mutiny"]
    /\ UNCHANGED shipLast
    /\ ShipFrame

\* if self._check_mutiny_conditions(): self._attempt_mutiny()
Mutiny ==
    /\ ship.pc = "mutiny"
    /\ IF check_mutiny_conditions(ship)
       THEN LET s1 == attempt_mutiny(ship)
            IN  ship' = IF s1.pc = "ValueError" THEN s1 ELSE [s1 EXCEPT !.pc = "sinking"]
       ELSE ship' = [ship EXCEPT !.pc = "sinking"]
    /\ UNCHANGED shipLast
    /\ ShipFrame

\* A variant of the end of simulate_day that counts the day of the sinking.
EndDayCountingSinking ==
    /\ ship.pc = "sinking"
    /\ \/ /\ ship.danger_level > Scaled(90)
          /\ ship' = [ship EXCEPT !.day = ship.day + 1, !.pc = "sunk"]
       \/ ship' = [ship EXCEPT !.day = ship.day + 1, !.pc = "idle"]
    /\ UNCHANGED shipLast
    /\ ShipFrame

\* The end of simulate_day: the ship sinks (return False) or day += 1.
EndDay ==
    /\ ship.pc = "sinking"
    /\ \/ /\ ship.danger_level > Scaled(90)
          /\ ship' = [ship EXCEPT !.pc = "sunk"]
       \/ ship' = [ship EXCEPT !.day = ship.day + 1, !.pc = "idle"]
    /\ UNCHANGED shipLast
    /\ ShipFrame

\* character.recall_event(keyword) between two days: the call assigns nothing.
RecallEvent ==
    /\ ship.pc = "idle"
    /\ \E id \in Ids(ship), event_keyword \in {"FOOD", "fight", "cold"} :
          Len(recall_event(ship.characters[id], event_keyword)) <= Len(ship.characters[id].memories)
    /\ UNCHANGED <<ship, shipLast>>
    /\ ShipFrame

\* The limits of a voyage: quiet and long, or short with two events.
VoyagePlans ==
    {[NoShipCall EXCEPT !.days = MaxVoyageDays, !.events = 0,
                        !.discussions = 0, !.formations = 0],
     [NoShipCall EXCEPT !.days = 2, !.events = MaxVoyageEvents,
                        !.discussions = 0, !.formations = 0]}

\* The days a quiet voyage needs for protests to bring captain_authority to 40.
MaxMutinyDays == 25

\* The characters constructed with trust_in_captain = 20 instead of the
\* default 70: none, two of five, three of five.
DistrustingCrews == {{}, {4, 6}, {4, 5, 6}}

\* Ship(), add_character for the roster, the distrusting ones with trust 20.
DistrustingShip(low) ==
    LET s == NewShip(TickRoster)
    IN  [s EXCEPT !.characters = [id \in Ids(s) |->
            IF id \in low
            THEN [s.characters[id] EXCEPT !.trust_in_captain = Scaled(20)]
            ELSE s.characters[id]]]

\* The pairs _character_interactions may ally in a run of two eventless days.
MaxAlliedPairs == 3

ShipNext ==
    \/ RecallEvent
    \/ BeginDay
    \/ GenerateDailyEvents
    \/ CharacterInteraction
    \/ UpdateAlliances
    \/ PhilosophicalDiscussion
    \/ Protest
    \/ Mutiny
    \/ EndDay

(***************************************************************************)
(* The alliance operations called one at a time, in any order              *)
(***************************************************************************)

InSomeAlliance(s, c) == \E i \in 1..Len(s.alliances) : c \in s.alliances[i].members

\* ship._form_alliance(c1, c2)
CallFormAlliance ==
    /\ shipLast.calls < shipLast.limit
    /\ \E c1 \in Ids(ship) : \E c2 \in Ids(ship) \ {c1}, purpose \in PurposeDraws :
          LET s1 == form_alliance(ship, c1, c2, purpose)
          IN  /\ Len(s1.alliances) <= MaxAlliances
              /\ StrengthsInRange(s1)
              /\ ship' = s1
              /\ shipLast' = [op |-> "form", a |-> c1, b |-> c2,
                              inA |-> InSomeAlliance(ship, c1),
                              inB |-> InSomeAlliance(ship, c2),
                              n |-> Len(ship.alliances),
                              calls |-> shipLast.calls + 1, limit |-> shipLast.limit]
    /\ ShipFrame

\* ship.alliances[i].add_member(c)
CallAddMember ==
    /\ shipLast.calls < shipLast.limit
    /\ \E i \in 1..Len(ship.alliances), c \in Ids(ship) :
          LET s1 == [ship EXCEPT !.alliances[i] = add_member(ship.alliances[i], c)]
          IN  /\ StrengthsInRange(s1)
              /\ ship' = s1
              /\ shipLast' = [op |-> "add_member", a |-> i, b |-> c,
                              inA |-> FALSE, inB |-> FALSE, n |-> Len(ship.alliances),
                              calls |-> shipLast.calls + 1, limit |-> shipLast.limit]
    /\ ShipFrame

\* ship.alliances[i].remove_member(c)
CallRemoveMember ==
    /\ shipLast.calls < shipLast.limit
    /\ \E i \in 1..Len(ship.alliances), c \in Ids(ship) :
          LET s1 == [ship EXCEPT !.alliances[i] = remove_member(ship.alliances[i], c)]
          IN  /\ StrengthsInRange(s1)
              /\ ship' = s1
              /\ shipLast' = [op |-> "remove_member", a |-> i, b |-> c,
                              inA |-> FALSE, inB |-> FALSE, n |-> Len(ship.alliances),
                              calls |-> shipLast.calls + 1, limit |-> shipLast.limit]
    /\ ShipFrame

\* ship._update_alliances()
CallUpdateAlliances ==
    /\ shipLast.calls < shipLast.limit
    /\ \E draws \in [1..Len(ship.alliances) -> UpdateDraws] :
          LET s1 == update_alliances(ship, draws)
          IN  /\ StrengthsInRange(s1)
              /\ ship' = s1
              /\ shipLast' = [op |-> "update", a |-> 0, b |-> 0,
                              inA |-> FALSE, inB |-> FALSE, n |-> Len(ship.alliances),
                              calls |-> shipLast.calls + 1, limit |-> shipLast.limit]
    /\ ShipFrame

AllianceNext ==
    \/ CallFormAlliance
    \/ CallAddMember
    \/ CallRemoveMember
    \/ CallUpdateAlliances

\* Runs whose members only arrive through _form_alliance.
WeakenNext ==
    \/ CallFormAlliance
    \/ CallRemoveMember
    \/ CallUpdateAlliances

(***************************************************************************)
(* Ship._attempt_mutiny on the day the mutiny conditions hold              *)
(***************************************************************************)

\* The ships a mutiny is attempted on, by the ids of their characters.
MutinyRosters == {<<1, 4, 6, 10>>, <<1, 4, 5, 6, 10>>}

\* The trust_in_captain and stress the characters were constructed with.
TrustDraws == {20, 30, 70}

\* The stress the revolutionaries and anarchists have reached.
RadicalStresses == {75, 90}

\* A ship of the roster whose captain_authority protests have brought to 40.
MutinyShip(order, trust, radical_stress) ==
    LET s == calculate_danger(NewShip(order))
    IN  [s EXCEPT
            !.captain_authority = 40,
            !.characters = [id \in Ids(s) |->
                [s.characters[id] EXCEPT
                    !.trust_in_captain = Scaled(trust[id]),
                    !.stress = IF Radical(s.characters[id]) THEN Scaled(radical_stress)
                               ELSE s.characters[id].stress]]]

NoMutinyCall == [op |-> "none", before |-> NewShip(<<>>)]

\* if self._check_mutiny_conditions(): self._attempt_mutiny()
AttemptMutiny ==
    /\ shipLast.op = "none"
    /\ check_mutiny_conditions(ship)
    /\ ship' = attempt_mutiny(ship)
    /\ shipLast' = [op |-> "attempt_mutiny", before |-> ship]
    /\ ShipFrame

MutinyNext == AttemptMutiny

(***************************************************************************)
(* Simulation, Group, LeadershipSystem  (src/src)                          *)
(***************************************************************************)

MaxSimDay == 30       \* run_day is called while day <= MaxSimDay
MinTrust == 0         \* update_captain_authority is not called below this trust
MaxTrust == 100       \* ... nor above this one

\* GroupIdentity, in the enum's order.
GroupIdentity ==
    <<"authority", "workers", "women", "lgbtq", "religious", "indigenous", "merchants">>

\* The influence the third character is constructed with: 80 in setup_simulation.
SpokespersonInfluences == {60, 80, 100}

\* The `change` arguments of update_captain_authority.
AuthorityChanges == {-35, -10, 10}

\* Character(...) of src/src/models/character.py with its dataclass defaults.
SimCharacter(id, name, role, groups, ideology, needs, influence, speaking_ability) ==
    [id |-> id, name |-> name, role |-> role, groups |-> groups, ideology |-> ideology,
     needs |-> needs, stress |-> Scaled(50), trust_in_captain |-> Scaled(70),
     memories |-> <<>>, alliances |-> {},
     speaking_ability |-> Scaled(speaking_ability), influence |-> Scaled(influence),
     is_spokesperson |-> FALSE]

\* The characters of setup_simulation; Need("hunger") has the default value 50.
SetupCharacters(spokesperson_influence) ==
    [id \in {1, 2, 3} |->
        CASE id = 1 -> SimCharacter(1, "Captain", "captain", {"authority"}, "conservative",
                          <<Need("power", 90), Need("hunger", 50)>>, 50, 50)
          [] id = 2 -> SimCharacter(2, "Worker", "worker", {"workers"}, "liberal",
                          <<Need("safety", 40), Need("hunger", 50)>>, 50, 50)
          [] OTHER  -> SimCharacter(3, "Spokesperson", "spokesperson", {"workers"},
                          "revolutionary",
                          <<Need("respect", 60), Need("hunger", 50)>>,
                          spokesperson_influence, 80)]

\* The election score of Group.elect_spokesperson.
ElectionScore(c) == c.speaking_ability + c.influence

\* A variant of the election that keeps the last member of maximal score.
ElectedLeaderLast(chars, members) ==
    IF members = <<>> THEN 0
    ELSE members[CHOOSE i \in 1..Len(members) :
            /\ \A j \in 1..Len(members) :
                  ElectionScore(chars[members[j]]) <= ElectionScore(chars[members[i]])
            /\ \A j \in (i + 1)..Len(members) :
                  ElectionScore(chars[members[j]]) < ElectionScore(chars[members[i]])]

\* max(members.values(), key=...): the first member of maximal score; 0 is None.
ElectedLeader(chars, members) ==
    IF members = <<>> THEN 0
    ELSE members[CHOOSE i \in 1..Len(members) :
            /\ \A j \in 1..Len(members) :
                  ElectionScore(chars[members[j]]) <= ElectionScore(chars[members[i]])
            /\ \A j \in 1..(i - 1) :
                  ElectionScore(chars[members[j]]) < ElectionScore(chars[members[i]])]

\* Group.elect_spokesperson on group g of simulation s.
elect_spokesperson(s, g) ==
    LET members == s.groups[g].members
        leader == ElectedLeader(s.characters, members)
    IN  IF members = <<>>
        THEN [s EXCEPT !.groups[g].spokesperson = 0]
        ELSE [s EXCEPT
                !.groups[g].spokesperson = leader,
                !.characters = [id \in DOMAIN s.characters |->
                    IF id \in SeqToSet(members)
                    THEN [s.characters[id] EXCEPT !.is_spokesperson = (id = leader)]
                    ELSE s.characters[id]]]

\* Group.add_member: members is a dict keyed by id, in insertion order.
group_add_member(s, g, id) ==
    IF id \in SeqToSet(s.groups[g].members) THEN s
    ELSE [s EXCEPT !.groups[g].members = Append(s.groups[g].members, id)]

\* Group.remove_member: del members[character.id] when it is a key.
group_remove_member(s, g, id) ==
    [s EXCEPT !.groups[g].members = SelectSeq(s.groups[g].members, LAMBDA m : m # id)]

RECURSIVE ElectAll(_, _)
\* for group in groups.values(): group.elect_spokesperson()
ElectAll(s, k) ==
    IF k > Len(GroupIdentity) THEN s
    ELSE ElectAll(elect_spokesperson(s, GroupIdentity[k]), k + 1)

\* LeadershipSystem.get_captain: 0 is None.
get_captain(s) ==
    LET hits == {i \in 1..Len(s.order) : s.characters[s.order[i]].role = "captain"}
    IN  IF hits = {} THEN 0
        ELSE s.order[CHOOSE i \in hits : \A j \in hits : i <= j]

\* setup_simulation(), then Simulation.__init__ and LeadershipSystem.__init__.
SetupSimulation(spokesperson_influence) ==
    LET chars == SetupCharacters(spokesperson_influence)
        order == <<1, 2, 3>>
        s0 == [day |-> 1, order |-> order, characters |-> chars,
               groups |-> [g \in SeqToSet(GroupIdentity) |->
                    [members |-> SelectSeq(order, LAMBDA id : g \in chars[id].groups),
                     spokesperson |-> 0]],
               captain |-> 0, pc |-> "running"]
        s1 == ElectAll(s0, 1)
    IN  [s1 EXCEPT !.captain = get_captain(s1)]

\* LeadershipSystem.update_captain_authority
update_captain_authority(s, change) ==
    IF s.captain # 0
    THEN [s EXCEPT !.characters[s.captain].trust_in_captain =
                        s.characters[s.captain].trust_in_captain + change]
    ELSE s

\* candidates of check_for_leadership_change, in group order.
Candidates(s) ==
    LET with == SelectSeq(GroupIdentity, LAMBDA g :
                    /\ s.groups[g].spokesperson # 0
                    /\ s.groups[g].spokesperson # s.captain)
    IN  [i \in 1..Len(with) |-> s.groups[with[i]].spokesperson]

\* The guard of check_for_leadership_change.
AuthorityIsWeak(s) ==
    /\ s.captain # 0
    /\ s.characters[s.captain].trust_in_captain < Scaled(40)

\* max(power_scores, key=power_scores.get): the first candidate of maximal
\* influence; 0 when there is none.
TopChallenger(s) ==
    LET cands == Candidates(s)
    IN  IF cands = <<>> THEN 0
        ELSE cands[CHOOSE i \in 1..Len(cands) :
                /\ \A j \in 1..Len(cands) :
                      s.characters[cands[j]].influence <= s.characters[cands[i]].influence
                /\ \A j \in 1..(i - 1) :
                      s.characters[cands[j]].influence < s.characters[cands[i]].influence]

\* A variant of check_for_leadership_change that compares the challenger with
\* the incumbent's influence alone and hands the role over.
check_for_leadership_change_no_margin(s) ==
    IF AuthorityIsWeak(s) /\ TopChallenger(s) # 0
    THEN IF s.characters[TopChallenger(s)].influence > s.characters[s.captain].influence
         THEN [s EXCEPT !.characters[s.captain].role = "deposed",
                        !.characters[TopChallenger(s)].role = "captain",
                        !.captain = TopChallenger(s)]
         ELSE s
    ELSE s

\* LeadershipSystem.check_for_leadership_change.  Character is a dataclass with
\* eq and without frozen, so it is unhashable: building power_scores, a dict
\* keyed by the candidates, raises TypeError, and lines 33-46 never run.
check_for_leadership_change(s) ==
    IF AuthorityIsWeak(s)
    THEN IF Candidates(s) = <<>> THEN s
         ELSE [s EXCEPT !.pc = "TypeError"]
    ELSE s

FoodShortageGroups == {"workers", "women"}

\* Simulation.handle_food_shortage: hunger and stress are written directly.
handle_food_shortage(c) ==
    [c EXCEPT
        !.needs = [i \in 1..Len(c.needs) |->
            IF c.needs[i].name = "hunger"
            THEN [c.needs[i] EXCEPT !.value = c.needs[i].value - Scaled(10)]
            ELSE c.needs[i]],
        !.stress = c.stress + Scaled(5)]

\* EventSystem.post(FoodShortageEvent(day), characters)
post_food_shortage(s) ==
    [s EXCEPT !.characters = [id \in DOMAIN s.characters |->
        IF s.characters[id].groups \cap FoodShortageGroups # {}
        THEN handle_food_shortage(s.characters[id])
        ELSE s.characters[id]]]

\* A variant of run_day in which each day costs the captain 10 of trust.
run_day_eroding_authority(s) ==
    LET s1 == IF s.day % 5 = 0 THEN post_food_shortage(s) ELSE s
        s2 == check_for_leadership_change(update_captain_authority(s1, Scaled(-10)))
    IN  IF s2.pc = "running" THEN [s2 EXCEPT !.day = s2.day + 1] ELSE s2

\* Simulation.run_day: a TypeError leaves before day += 1.
run_day(s) ==
    LET s1 == IF s.day % 5 = 0 THEN post_food_shortage(s) ELSE s
        s2 == check_for_leadership_change(s1)
    IN  IF s2.pc = "running" THEN [s2 EXCEPT !.day = s2.day + 1] ELSE s2

\* The margin test of line 37, on the state a call starts from.
MarginPassed(s) ==
    /\ AuthorityIsWeak(s)
    /\ TopChallenger(s) # 0
    /\ s.characters[TopChallenger(s)].influence >
          s.characters[s.captain].influence + s.characters[s.captain].trust_in_captain

\* What the last call of the Simulation API started from.
SimCall(op, s) ==
    [op |-> op, captain |-> s.captain, challenger |-> TopChallenger(s),
     weak |-> AuthorityIsWeak(s), margin |-> MarginPassed(s),
     group |-> "none", elected |-> {}]

NoSimCall ==
    [op |-> "none", captain |-> 0, challenger |-> 0, weak |-> FALSE, margin |-> FALSE,
     group |-> "none", elected |-> {}]

SimFrame == UNCHANGED <<socVars, shipVars, agentVars, eventVars>>

\* The groups whose methods are called one at a time; the other groups stay
\* without members.
GroupDraws == {"workers", "women"}

\* The characters of setup_simulation and a Group(identity) for every
\* GroupIdentity, before any add_member.
NewGroups(spokesperson_influence) ==
    [day |-> 1, order |-> <<1, 2, 3>>,
     characters |-> SetupCharacters(spokesperson_influence),
     groups |-> [g \in SeqToSet(GroupIdentity) |-> [members |-> <<>>, spokesperson |-> 0]],
     captain |-> 0, pc |-> "running"]

\* group.add_member(character)
GroupAddMember ==
    /\ \E g \in GroupDraws, id \in DOMAIN sim.characters :
          /\ sim' = group_add_member(sim, g, id)
          /\ simLast' = [simLast EXCEPT !.op = "add_member", !.group = g]
    /\ SimFrame

\* group.remove_member(character)
GroupRemoveMember ==
    /\ \E g \in GroupDraws, id \in DOMAIN sim.characters :
          /\ sim' = group_remove_member(sim, g, id)
          /\ simLast' = [simLast EXCEPT !.op = "remove_member", !.group = g]
    /\ SimFrame

\* group.elect_spokesperson(); `elected` collects the groups that have run it.
ElectSpokesperson ==
    /\ \E g \in GroupDraws :
          /\ sim' = elect_spokesperson(sim, g)
          /\ simLast' = [simLast EXCEPT !.op = "elect_spokesperson", !.group = g,
                                        !.elected = simLast.elected \cup {g}]
    /\ SimFrame

GroupsNext == GroupAddMember \/ GroupRemoveMember \/ ElectSpokesperson

\* simulation.run_day(), as run_simulation calls it once per day.
RunDay ==
    /\ sim.pc = "running"
    /\ sim.day <= MaxSimDay
    /\ sim' = run_day(sim)
    /\ simLast' = SimCall("run_day", sim)
    /\ SimFrame

\* leadership_system.update_captain_authority(change)
UpdateCaptainAuthority ==
    /\ sim.pc = "running"
    /\ sim.captain # 0
    /\ \E change \in AuthorityChanges :
        /\ sim.characters[sim.captain].trust_in_captain + Scaled(change) >= Scaled(MinTrust)
        /\ sim.characters[sim.captain].trust_in_captain + Scaled(change) <= Scaled(MaxTrust)
        /\ sim' = update_captain_authority(sim, Scaled(change))
    /\ simLast' = SimCall("update_captain_authority", sim)
    /\ SimFrame

\* leadership_system.check_for_leadership_change(groups), called directly.
CheckForLeadershipChange ==
    /\ sim.pc = "running"
    /\ sim' = check_for_leadership_change(sim)
    /\ simLast' = SimCall("check_for_leadership_change", sim)
    /\ SimFrame

SimNext == RunDay \/ UpdateCaptainAuthority \/ CheckForLeadershipChange

\* run_simulation(days): nothing but run_day is called.
RunNext == RunDay

\* The influence of the third character in the runs of run_simulation.
RunInfluences == {40, 60, 80, 100}

(***************************************************************************)
(* Character.update_needs on one character                                 *)
(***************************************************************************)

\* The values the needs of the character start from, and the deltas applied.
NeedValues == {0, 10, 20, 50, 100}
NeedDeltas == {-1000, -30, -10, 0, 10, 25, 30, 1000}
MaxUpdates == 3       \* update_needs is called at most this many times

NoNeedsCall ==
    [op |-> "none", before |-> <<>>, changes |-> <<>>, calls |-> 0, critical |-> <<>>]

NeedsFrame == UNCHANGED <<socVars, shipVars, simVars, eventVars>>

\* character.update_needs({name: delta, ...}) on any subset of the names,
\* a name the character does not have included.
UpdateNeeds ==
    /\ agentLast.calls < MaxUpdates
    /\ \E names \in SUBSET {"hunger", "safety", "respect"} :
         \E d \in NeedDeltas :
            LET changes == [n \in names |-> Scaled(d)]
            IN  /\ agent' = update_needs(agent, changes)
                /\ agentLast' = [op |-> "update_needs", before |-> agent.needs,
                                 changes |-> changes, calls |-> agentLast.calls + 1,
                                 critical |-> <<>>]
    /\ NeedsFrame

\* character.get_critical_needs()
GetCriticalNeeds ==
    /\ agentLast' = [agentLast EXCEPT !.op = "get_critical_needs",
                                      !.critical = get_critical_needs(agent)]
    /\ UNCHANGED agent
    /\ NeedsFrame

NeedsNext == UpdateNeeds \/ GetCriticalNeeds

(***************************************************************************)
(* EventSystem, Event  (src/event_system.py) and Character (src/character.py) *)
(***************************************************************************)

MaxTriggers == 6      \* trigger_random_event is called at most this many times

\* The random module as a generator of period RandomModulus: random() returns
\* state / RandomModulus and moves the state on.
RandomModulus == 10
RandomNext(x) == (x + 7) % RandomModulus

\* random.seed(n) arguments.
Seeds == {0, 3, 5, 8}

\* What differs between two runs of one program: clock, pid, OS entropy.
Entropies == {0, 9}

\* Severity 1.0 in units of 1/20; attribute 1.0 in units of 1/200 (a tenth of
\* an impact value times a severity).
SeverityOne == 20
AttrOne == 200

\* Event(name, description, event_type, impact, weight): impact in tenths, in
\* dict order; weight in halves; severity starts at 1.0.
OldEvent(name, impact, weight) ==
    [name |-> name, impact |-> impact, weight |-> weight, severity |-> SeverityOne]

Effect(effect, attr, sign, value) ==
    [effect |-> effect, attr |-> attr, sign |-> sign, value |-> value]

\* EventSystem._create_predefined_events
create_predefined_events ==
    << OldEvent("Food Shortage",
            << Effect("hunger_increase", "hunger", 1, 5),
               Effect("cooperation_decrease", "cooperation", -1, 2),
               Effect("conflict_increase", "conflict", 1, 3) >>, 6),
       OldEvent("Silent Rebellion",
            << Effect("trust_decrease", "trust", -1, 4),
               Effect("rebellion_chance_increase", "rebellion_chance", 1, 5) >>, 2),
       OldEvent("Technological Breakdown",
            << Effect("stress_increase", "stress", 1, 3),
               Effect("cooperation_chance_increase", "cooperation_chance", 1, 4) >>, 4),
       OldEvent("Philosophical Dilemma",
            << Effect("moral_distress_increase", "moral_distress", 1, 6),
               Effect("cooperation_decrease", "cooperation", -1, 1) >>, 1) >>

\* An event a caller constructs over attributes a Character does have.
Plague ==
    OldEvent("Plague",
        << Effect("health_decrease", "health", -1, 5),
           Effect("trauma_points_increase", "trauma_points", 1, 3) >>, 2)

\* The float attributes of Character.__init__ that an impact can name.
OldCharacter(name) ==
    [name |-> name, health |-> AttrOne, trauma_points |-> 0,
     psychological_state |-> "normal"]

\* Character.make_decision reads traits, emotions and needs given in tenths;
\* its scores are in hundredths.
TraitDraws == {0, 5, 10}
PsychologicalState == {"normal", "angry", "depressed", "cooperative", "paranoid"}
HiddenAgendaDraws == {"seek_power", "survive", "none"}

\* Character(name, ..., big_five_traits, hidden_agenda) with the emotion, need
\* and state attributes at the given values.
DecidingCharacter(name, traits, anger, physiological, state, agenda) ==
    [name |-> name, big_five_traits |-> traits,
     needs |-> [physiological |-> physiological, social |-> 10, psychological |-> 10],
     emotions |-> [anger |-> anger, hope |-> 0, fear |-> 0, happiness |-> 0],
     psychological_state |-> state, hidden_agenda |-> agenda,
     trauma_points |-> 0, health |-> AttrOne]

\* Character._calculate_influence (hundredths).
calculate_influence(c, factor) ==
    CASE factor = "anger" -> c.emotions.anger * (10 + c.big_five_traits.neuroticism)
      [] factor = "cooperation" -> 10 * c.big_five_traits.agreeableness
      [] factor = "risk" ->
            c.big_five_traits.openness * (10 - c.big_five_traits.conscientiousness)
      [] factor = "survival" -> 10 * (10 - c.needs.physiological)
      [] OTHER -> 0

\* The keys of the actions dict of make_decision, in insertion order.
DecisionOrder == <<"cooperate", "rebel", "take_risk", "seek_resources">>

\* The actions dict of make_decision after both modifiers.
DecisionScores(c) ==
    LET base == [cooperate |-> calculate_influence(c, "cooperation"),
                 rebel |-> calculate_influence(c, "anger"),
                 take_risk |-> calculate_influence(c, "risk"),
                 seek_resources |-> calculate_influence(c, "survival")]
        state == CASE c.psychological_state = "angry" ->
                        [base EXCEPT !.rebel = base.rebel + 50]
                   [] c.psychological_state = "depressed" ->
                        [base EXCEPT !.cooperate = base.cooperate - 30]
                   [] c.psychological_state = "cooperative" ->
                        [base EXCEPT !.cooperate = base.cooperate + 70]
                   [] OTHER -> base
    IN  CASE c.hidden_agenda = "seek_power" ->
                [state EXCEPT !.rebel = state.rebel + 50,
                              !.cooperate = state.cooperate - 30]
          [] c.hidden_agenda = "survive" ->
                [state EXCEPT !.seek_resources = state.seek_resources + 70]
          [] OTHER -> state

\* A variant of make_decision that returns the last of the actions with the
\* highest score.
make_decision_last(c) ==
    LET actions == DecisionScores(c)
        top == {i \in 1..4 : \A j \in 1..4 :
                    actions[DecisionOrder[j]] <= actions[DecisionOrder[i]]}
    IN  DecisionOrder[CHOOSE i \in top : \A j \in top : j <= i]

\* Character.make_decision: max(actions, key=actions.get) is the first key
\* with the highest score.
make_decision(c) ==
    LET actions == DecisionScores(c)
        top == {i \in 1..4 : \A j \in 1..4 :
                    actions[DecisionOrder[j]] <= actions[DecisionOrder[i]]}
    IN  DecisionOrder[CHOOSE i \in top : \A j \in top : i <= j]

\* decision = character.make_decision()
MakeDecision ==
    /\ agentLast.op = "none"
    /\ agentLast' = [agentLast EXCEPT !.op = "make_decision",
                                      !.before = make_decision(agent)]
    /\ UNCHANGED agent
    /\ NeedsFrame

DecisionNext == MakeDecision

RECURSIVE SumWeights(_, _)
\* The cumulative weight of events[1..k].
SumWeights(events, k) ==
    IF k = 0 THEN 0 ELSE events[k].weight + SumWeights(events, k - 1)

\* random.choices(events, weights, k=1)[0] for the draw x: the first index
\* whose cumulative weight exceeds x / RandomModulus of the total.
WeightedChoice(events, x) ==
    CHOOSE i \in 1..Len(events) :
        /\ x * SumWeights(events, Len(events)) < SumWeights(events, i) * RandomModulus
        /\ \A j \in 1..(i - 1) :
              ~(x * SumWeights(events, Len(events)) < SumWeights(events, j) * RandomModulus)

\* random.uniform(0.5, 1.0) for the draw x, in units of 1/20.
UniformSeverity(x) == SeverityOne \div 2 + x

\* A variant of EventSystem.trigger_random_event that draws from a source the
\* seed does not set.
trigger_random_event_unseeded(r) ==
    IF 5 * r.entropy < RandomModulus
    THEN LET x2 == RandomNext(r.entropy)
             x3 == RandomNext(x2)
             i == WeightedChoice(r.events, x2)
             severity == UniformSeverity(x3)
         IN  [r EXCEPT !.entropy = RandomNext(x3),
                       !.events[i].severity = severity,
                       !.returned = Append(r.returned, [ref |-> i, severity |-> severity])]
    ELSE [r EXCEPT !.entropy = RandomNext(r.entropy),
                   !.returned = Append(r.returned, [ref |-> 0, severity |-> 0])]

\* EventSystem.trigger_random_event on run r: the chosen catalog object gets
\* the severity and is returned itself (0 is None).
trigger_random_event(r) ==
    IF 5 * r.rng < RandomModulus
    THEN LET x2 == RandomNext(r.rng)
             x3 == RandomNext(x2)
             i == WeightedChoice(r.events, x2)
             severity == UniformSeverity(x3)
         IN  [r EXCEPT !.rng = RandomNext(x3),
                       !.events[i].severity = severity,
                       !.returned = Append(r.returned, [ref |-> i, severity |-> severity])]
    ELSE [r EXCEPT !.rng = RandomNext(r.rng),
                   !.returned = Append(r.returned, [ref |-> 0, severity |-> 0])]

\* The value apply_event_impact writes back to an attribute.
ClampAttr(v) == Max(0, Min(AttrOne, v))

RECURSIVE ApplyEffects(_, _, _, _)
\* The impact loop of apply_event_impact on one character from effect k on:
\* getattr raises AttributeError for an attribute the character lacks.
ApplyEffects(c, impact, severity, k) ==
    IF k > Len(impact) THEN [c |-> c, raised |-> FALSE]
    ELSE IF impact[k].attr \notin DOMAIN c THEN [c |-> c, raised |-> TRUE]
    ELSE ApplyEffects(
            [c EXCEPT ![impact[k].attr] =
                ClampAttr(c[impact[k].attr] + impact[k].sign * impact[k].value * severity)],
            impact, severity, k + 1)

\* EventSystem.apply_event_impact(characters, event).  The first character's
\* impact loop runs until an attribute is missing; if none is, line 117 reads
\* PsychologicalState.ANXIOUS, which the enum does not have: AttributeError
\* either way, before the second character.
apply_event_impact(r, event) ==
    IF r.characters = <<>> THEN r
    ELSE [r EXCEPT
            !.characters[1] =
                ApplyEffects(r.characters[1], event.impact, event.severity, 1).c,
            !.pc = "AttributeError"]

\* random.seed(seed); EventSystem(); the caller's characters.
NewRun(seed, entropy, n_characters) ==
    [events |-> create_predefined_events, rng |-> seed, entropy |-> entropy,
     returned |-> <<>>,
     characters |-> [i \in 1..n_characters |-> OldCharacter(<<"Ada", "Ben">>[i])],
     pc |-> "running"]

EventFrame == UNCHANGED <<socVars, shipVars, simVars, agentVars>>

\* event_system.trigger_random_event(), the same call in both runs.
TriggerRandomEvent ==
    /\ event_system.pc = "running"
    /\ Len(event_system.returned) < MaxTriggers
    /\ event_system' = trigger_random_event(event_system)
    /\ event_twin' = trigger_random_event(event_twin)
    /\ eventLast' = [op |-> "trigger_random_event", before |-> event_system.characters,
                     event |-> 0]
    /\ EventFrame

\* event_system.apply_event_impact(characters, event) with a catalog event or
\* one the caller built.
ApplyEventImpact ==
    /\ event_system.pc = "running"
    /\ \E event \in SeqToSet(event_system.events) \cup {Plague} :
          /\ event_system' = apply_event_impact(event_system, event)
          /\ event_twin' =
                apply_event_impact(event_twin,
                    IF event = Plague THEN Plague
                    ELSE event_twin.events[
                            CHOOSE i \in 1..Len(event_system.events) :
                                event_system.events[i] = event])
          /\ eventLast' = [op |-> "apply_event_impact",
                           before |-> event_system.characters, event |-> event]
    /\ EventFrame

EventNext == TriggerRandomEvent \/ ApplyEventImpact

(***************************************************************************)
(* Specifications                                                          *)
(***************************************************************************)

IdleSocial == EmptyGraph
IdleShip == NewShip(<<>>)
IdleSim == [pc |-> "idle"]
IdleAgent == [needs |-> <<>>]
IdleEvents == [pc |-> "idle"]
NoEventCall == [op |-> "none"]

SocialInit ==
    /\ social_graph = IdleSocial /\ socLast = NoSocCall
    /\ ship = IdleShip /\ shipLast = NoShipCall
    /\ sim = IdleSim /\ simLast = NoSimCall
    /\ agent = IdleAgent /\ agentLast = NoNeedsCall
    /\ event_system = IdleEvents /\ event_twin = IdleEvents /\ eventLast = NoEventCall

ShipSpecInit ==
    /\ ship = NewShip(TickRoster) /\ shipLast = NoShipCall
    /\ social_graph = IdleSocial /\ socLast = NoSocCall
    /\ sim = IdleSim /\ simLast = NoSimCall
    /\ agent = IdleAgent /\ agentLast = NoNeedsCall
    /\ event_system = IdleEvents /\ event_twin = IdleEvents /\ eventLast = NoEventCall

AllianceInit ==
    /\ ship = NewShip(AllianceRoster) /\ shipLast = NoShipCall
    /\ social_graph = IdleSocial /\ socLast = NoSocCall
    /\ sim = IdleSim /\ simLast = NoSimCall
    /\ agent = IdleAgent /\ agentLast = NoNeedsCall
    /\ event_system = IdleEvents /\ event_twin = IdleEvents /\ eventLast = NoEventCall

WeakenInit ==
    /\ ship = NewShip(AllianceRoster)
    /\ shipLast = [NoShipCall EXCEPT !.limit = MaxWeakenCalls]
    /\ social_graph = IdleSocial /\ socLast = NoSocCall
    /\ sim = IdleSim /\ simLast = NoSimCall
    /\ agent = IdleAgent /\ agentLast = NoNeedsCall
    /\ event_system = IdleEvents /\ event_twin = IdleEvents /\ eventLast = NoEventCall

VoyageInit ==
    /\ ship = NewShip(TickRoster)
    /\ shipLast \in VoyagePlans
    /\ social_graph = IdleSocial /\ socLast = NoSocCall
    /\ sim = IdleSim /\ simLast = NoSimCall
    /\ agent = IdleAgent /\ agentLast = NoNeedsCall
    /\ event_system = IdleEvents /\ event_twin = IdleEvents /\ eventLast = NoEventCall

DistrustInit ==
    /\ \E low \in DistrustingCrews : ship = DistrustingShip(low)
    /\ shipLast = [NoShipCall EXCEPT !.days = MaxMutinyDays, !.events = 0,
                                     !.discussions = 0, !.formations = 0]
    /\ social_graph = IdleSocial /\ socLast = NoSocCall
    /\ sim = IdleSim /\ simLast = NoSimCall
    /\ agent = IdleAgent /\ agentLast = NoNeedsCall
    /\ event_system = IdleEvents /\ event_twin = IdleEvents /\ eventLast = NoEventCall

AlliesInit ==
    /\ ship = NewShip(TickRoster)
    /\ shipLast = [NoShipCall EXCEPT !.days = 2, !.events = 0, !.discussions = 0,
                                     !.formations = MaxAlliedPairs]
    /\ social_graph = IdleSocial /\ socLast = NoSocCall
    /\ sim = IdleSim /\ simLast = NoSimCall
    /\ agent = IdleAgent /\ agentLast = NoNeedsCall
    /\ event_system = IdleEvents /\ event_twin = IdleEvents /\ eventLast = NoEventCall

GroupsInit ==
    /\ sim = NewGroups(80)
    /\ simLast = NoSimCall
    /\ social_graph = IdleSocial /\ socLast = NoSocCall
    /\ ship = IdleShip /\ shipLast = NoShipCall
    /\ agent = IdleAgent /\ agentLast = NoNeedsCall
    /\ event_system = IdleEvents /\ event_twin = IdleEvents /\ eventLast = NoEventCall

RunInit ==
    /\ \E i \in RunInfluences : sim = SetupSimulation(i)
    /\ simLast = NoSimCall
    /\ social_graph = IdleSocial /\ socLast = NoSocCall
    /\ ship = IdleShip /\ shipLast = NoShipCall
    /\ agent = IdleAgent /\ agentLast = NoNeedsCall
    /\ event_system = IdleEvents /\ event_twin = IdleEvents /\ eventLast = NoEventCall

SimInit ==
    /\ \E i \in SpokespersonInfluences : sim = SetupSimulation(i)
    /\ simLast = NoSimCall
    /\ social_graph = IdleSocial /\ socLast = NoSocCall
    /\ ship = IdleShip /\ shipLast = NoShipCall
    /\ agent = IdleAgent /\ agentLast = NoNeedsCall
    /\ event_system = IdleEvents /\ event_twin = IdleEvents /\ eventLast = NoEventCall

NeedsInit ==
    /\ \E h \in NeedValues, f \in NeedValues :
          agent = SimCharacter(2, "Worker", "worker", {"workers"}, "liberal",
                               <<Need("hunger", h), Need("safety", f)>>, 50, 50)
    /\ agentLast = NoNeedsCall
    /\ event_system = IdleEvents /\ event_twin = IdleEvents /\ eventLast = NoEventCall
    /\ social_graph = IdleSocial /\ socLast = NoSocCall
    /\ ship = IdleShip /\ shipLast = NoShipCall
    /\ sim = IdleSim /\ simLast = NoSimCall

DecisionInit ==
    /\ \E a \in TraitDraws, n \in TraitDraws, o \in TraitDraws, c \in TraitDraws :
       \E anger \in TraitDraws, physiological \in TraitDraws :
       \E state \in PsychologicalState, agenda \in HiddenAgendaDraws :
          agent = DecidingCharacter("Alice",
                    [openness |-> o, conscientiousness |-> c, extraversion |-> 5,
                     agreeableness |-> a, neuroticism |-> n],
                    anger, physiological, state, agenda)
    /\ agentLast = NoNeedsCall
    /\ event_system = IdleEvents /\ event_twin = IdleEvents /\ eventLast = NoEventCall
    /\ social_graph = IdleSocial /\ socLast = NoSocCall
    /\ ship = IdleShip /\ shipLast = NoShipCall
    /\ sim = IdleSim /\ simLast = NoSimCall

MutinyInit ==
    /\ \E order \in MutinyRosters : \E trust \in [SeqToSet(order) -> TrustDraws] :
       \E radical_stress \in RadicalStresses :
          ship = MutinyShip(order, trust, radical_stress)
    /\ shipLast = NoMutinyCall
    /\ social_graph = IdleSocial /\ socLast = NoSocCall
    /\ sim = IdleSim /\ simLast = NoSimCall
    /\ agent = IdleAgent /\ agentLast = NoNeedsCall
    /\ event_system = IdleEvents /\ event_twin = IdleEvents /\ eventLast = NoEventCall

EventInit ==
    /\ \E seed \in Seeds, e1 \in Entropies, e2 \in Entropies, n \in 0..2 :
          /\ event_system = NewRun(seed, e1, n)
          /\ event_twin = NewRun(seed, e2, n)
    /\ eventLast = NoEventCall
    /\ social_graph = IdleSocial /\ socLast = NoSocCall
    /\ ship = IdleShip /\ shipLast = NoShipCall
    /\ sim = IdleSim /\ simLast = NoSimCall
    /\ agent = IdleAgent /\ agentLast = NoNeedsCall

DecayInit ==
    /\ social_graph \in BuiltGraphs
    /\ \E rate \in DecayRates : socLast = [NoSocCall EXCEPT !.rate = rate]
    /\ ship = IdleShip /\ shipLast = NoShipCall
    /\ sim = IdleSim /\ simLast = NoSimCall
    /\ agent = IdleAgent /\ agentLast = NoNeedsCall
    /\ event_system = IdleEvents /\ event_twin = IdleEvents /\ eventLast = NoEventCall

InteractInit ==
    /\ social_graph \in GraphsOver(InteractionWeights, InteractionRelTypes)
    /\ socLast = NoInteraction
    /\ ship = IdleShip /\ shipLast = NoShipCall
    /\ sim = IdleSim /\ simLast = NoSimCall
    /\ agent = IdleAgent /\ agentLast = NoNeedsCall
    /\ event_system = IdleEvents /\ event_twin = IdleEvents /\ eventLast = NoEventCall

GraphInit ==
    /\ social_graph = EmptyGraph
    /\ socLast = NoGraphCall
    /\ ship = IdleShip /\ shipLast = NoShipCall
    /\ sim = IdleSim /\ simLast = NoSimCall
    /\ agent = IdleAgent /\ agentLast = NoNeedsCall
    /\ event_system = IdleEvents /\ event_twin = IdleEvents /\ eventLast = NoEventCall

SpecSocial == SocialInit /\ [][SocNext]_vars
SpecShip == ShipSpecInit /\ [][ShipNext]_vars
SpecAlliance == AllianceInit /\ [][AllianceNext]_vars
SpecSim == SimInit /\ [][SimNext]_vars
SpecNeeds == NeedsInit /\ [][NeedsNext]_vars
SpecMutiny == MutinyInit /\ [][MutinyNext]_vars
SpecEvents == EventInit /\ [][EventNext]_vars
SpecInteract == InteractInit /\ [][InteractNext]_vars
SpecWeaken == WeakenInit /\ [][WeakenNext]_vars
SpecVoyage == VoyageInit /\ [][ShipNext]_vars
SpecDistrust == DistrustInit /\ [][ShipNext]_vars
SpecAllies == AlliesInit /\ [][ShipNext]_vars
SpecGroups == GroupsInit /\ [][GroupsNext]_vars
SpecRun == RunInit /\ [][RunNext]_vars
SpecDecision == DecisionInit /\ [][DecisionNext]_vars
SpecGraph == GraphInit /\ [][GraphNext]_vars
SpecDecay == DecayInit /\ [][DecayNext]_vars /\ WF_vars(DecayNext)

(***************************************************************************)
(* Properties                                                              *)
(***************************************************************************)

\* C1: no edge of the relationship graph has strength exactly 0, after any
\* sequence of add_character, add_relationship, update_relationship and
\* decay_relationships.
NoZeroStrengthEdge ==
    \A e \in DOMAIN social_graph.edges : social_graph.edges[e].weight # 0

\* C2: every edge of the relationship graph has a strength within [0, 1],
\* whatever initial_strength, interaction type and decay rate were passed.
EdgeStrengthWithinRange ==
    \A e \in DOMAIN social_graph.edges :
        /\ social_graph.edges[e].weight >= 0
        /\ social_graph.edges[e].weight <= One

\* C3: when a simulate_day tick has ended, every character's stress is within
\* [0, 100].
StressWithinRange ==
    ship.pc \in {"idle", "sunk"} =>
        \A id \in Ids(ship) :
            /\ ship.characters[id].stress >= 0
            /\ ship.characters[id].stress <= Scaled(100)

\* C4: after any number of run_day calls every Need value of every character
\* of the Simulation is within [0, 100], hunger after a Food Shortage included.
NeedsWithinRange ==
    \A id \in DOMAIN sim.characters :
        \A i \in 1..Len(sim.characters[id].needs) :
            /\ sim.characters[id].needs[i].value >= 0
            /\ sim.characters[id].needs[i].value <= Scaled(100)

\* C5: after each update_needs call every need named in the call holds
\* min(100, max(0, old + delta)), so a value within [0, 100], and every other
\* need holds its old value.
UpdateNeedsClamps ==
    agentLast.op = "update_needs" =>
        /\ Len(agent.needs) = Len(agentLast.before)
        /\ \A i \in 1..Len(agent.needs) :
            LET old == agentLast.before[i]
                sum == old.value + agentLast.changes[old.name]
            IN  /\ agent.needs[i].name = old.name
                /\ IF old.name \in DOMAIN agentLast.changes
                   THEN /\ agent.needs[i].value =
                              (IF sum > Scaled(100) THEN Scaled(100)
                               ELSE IF sum < 0 THEN 0 ELSE sum)
                        /\ agent.needs[i].value >= 0
                        /\ agent.needs[i].value <= Scaled(100)
                   ELSE agent.needs[i].value = old.value

\* C5 witness: a call whose delta overshoots 100 for one need has been made, and
\* one whose delta undershoots 0 is being looked at for another need.
UpdateNeedsClampedBothWays ==
    /\ agentLast.op = "update_needs"
    /\ \E i \in 1..Len(agent.needs) :
        /\ agentLast.before[i].name \in DOMAIN agentLast.changes
        /\ agentLast.before[i].value + agentLast.changes[agentLast.before[i].name] < 0
        /\ agent.needs[i].value = 0
    /\ \E i \in 1..Len(agent.needs) : agent.needs[i].value = Scaled(100)
    /\ agentLast.calls >= 2

\* C6: an alliance that is broken keeps its member set and its strength in
\* every later step.
BrokenAllianceIsInert ==
    [][\A i \in 1..Len(ship.alliances) :
          ship.alliances[i].broken =>
              /\ ship'.alliances[i].members = ship.alliances[i].members
              /\ ship'.alliances[i].strength = ship.alliances[i].strength]_vars

\* C7: once an alliance is broken it is broken in every later state, whatever
\* form, add_member, remove_member and _update_alliances calls follow.
BrokenIsIrreversible ==
    [][\A i \in 1..Len(ship.alliances) :
          ship.alliances[i].broken =>
              /\ i <= Len(ship'.alliances)
              /\ ship'.alliances[i].broken]_vars

\* C7 witness: a broken alliance that later calls gave two members and a
\* strength of 20 or more again is still broken.
BrokenAllianceRefilled ==
    /\ shipLast.op \in {"form", "add_member"}
    /\ \E i \in 1..Len(ship.alliances) :
        /\ ship.alliances[i].broken
        /\ Cardinality(ship.alliances[i].members) >= 2
        /\ ship.alliances[i].strength >= 20

\* C8: after _form_alliance(a, b) where exactly one of the two was in an
\* alliance, the number of alliances is what it was and exactly one alliance
\* holds both.
FormJoinsExistingAlliance ==
    (shipLast.op = "form" /\ shipLast.inA # shipLast.inB) =>
        /\ Len(ship.alliances) = shipLast.n
        /\ Cardinality({i \in 1..Len(ship.alliances) :
                {shipLast.a, shipLast.b} \subseteq ship.alliances[i].members}) = 1

\* C8 witness: a member of an alliance has been allied with a character that
\* was in none.
FreshAgentJoined ==
    /\ shipLast.op = "form"
    /\ shipLast.inA /\ ~shipLast.inB
    /\ shipLast.n >= 1
    /\ \E i \in 1..Len(ship.alliances) :
        /\ {shipLast.a, shipLast.b} \subseteq ship.alliances[i].members
        /\ Cardinality(ship.alliances[i].members) >= 3

Roles(s) == [id \in DOMAIN s.characters |-> s.characters[id].role]

\* C9: a step changes the captain or a role only if it starts with the
\* incumbent's trust below 40 and the top challenger's influence above the
\* incumbent's influence plus trust.
CaptainReplacedOnlyOnMargin ==
    [][(sim'.captain # sim.captain \/ Roles(sim') # Roles(sim)) => MarginPassed(sim)]_vars

\* C9 witness: check_for_leadership_change was called with trust 35, challenger
\* influence 60 and incumbent influence 50, and the captain and roles are the
\* ones of setup.
WeakCaptainKept ==
    /\ simLast.op = "check_for_leadership_change"
    /\ simLast.weak /\ ~simLast.margin /\ simLast.challenger # 0
    /\ sim.characters[sim.captain].trust_in_captain = Scaled(35)
    /\ sim.characters[sim.captain].influence = Scaled(50)
    /\ sim.characters[simLast.challenger].influence = Scaled(60)
    /\ sim.captain = simLast.captain
    /\ Roles(sim) = Roles(SetupSimulation(60))

\* C10: exactly one character has role captain and it is the one the
\* leadership system designates; after a check_for_leadership_change call that
\* started with the margin passed, the former incumbent is deposed and the top
\* challenger is the captain.
SingleCaptainAndSuccession ==
    /\ {id \in DOMAIN sim.characters : sim.characters[id].role = "captain"} = {sim.captain}
    /\ (simLast.op = "check_for_leadership_change" /\ simLast.margin) =>
          /\ sim.characters[simLast.captain].role = "deposed"
          /\ sim.captain = simLast.challenger

NonCaptains(s) == {id \in Ids(s) : s.characters[id].role # "captain"}

\* C11: a mutiny attempt succeeds exactly when the characters whose trust in
\* the captain is below 30 are more than half of the characters other than
\* the captain.
MutinySucceedsOnMajorityOfCrew ==
    shipLast.op = "attempt_mutiny" =>
        ((ship.captain_authority = 0) <=>
            (2 * SupportCount(shipLast.before)
                > Cardinality(NonCaptains(shipLast.before))))

\* C12: a successful attempt sets captain_authority to 0 and heading to 180 and
\* leaves every character's stress and influence; a failed one adds 15 to the
\* stress and takes 10 from the influence of each mutineer and leaves
\* captain_authority, heading and every other character.
MutinyOutcome ==
    shipLast.op = "attempt_mutiny" =>
        LET before == shipLast.before
        IN  IF 2 * SupportCount(before) > Len(before.order)
            THEN /\ ship.captain_authority = 0
                 /\ ship.heading = 180
                 /\ ship.characters = before.characters
            ELSE /\ ship.captain_authority = before.captain_authority
                 /\ ship.heading = before.heading
                 /\ \A id \in Ids(before) :
                       IF Radical(before.characters[id])
                          /\ before.characters[id].role # "captain"
                       THEN ship.characters[id] =
                              [before.characters[id] EXCEPT
                                 !.stress = before.characters[id].stress + Scaled(15),
                                 !.influence = before.characters[id].influence - Scaled(10)]
                       ELSE ship.characters[id] = before.characters[id]

\* C12 witness: an attempt has failed on a ship that carries a character who
\* is no mutineer besides the captain, and a mutineer has paid the penalty.
MutinyFailed ==
    /\ shipLast.op = "attempt_mutiny"
    /\ ship.captain_authority = 40
    /\ \E id \in NonCaptains(ship) : ~Radical(ship.characters[id])
    /\ \E id \in NonCaptains(ship) :
          /\ Radical(ship.characters[id])
          /\ ship.characters[id].stress = shipLast.before.characters[id].stress + Scaled(15)
          /\ ship.characters[id].influence =
                shipLast.before.characters[id].influence - Scaled(10)

\* The memories of character id that carry the day and description of event e.
MemoriesOf(id, e) ==
    {i \in 1..Len(ship.characters[id].memories) :
        /\ ship.characters[id].memories[i].day = e.day
        /\ ship.characters[id].memories[i].event = e.description}

\* C14: for every processed event each affected character holds exactly one
\* memory with the event's day and description and holds no other memories;
\* two such memories of one event carry the same interpretation exactly when
\* their owners have the same ideology.
EventMemoryPerIdeology ==
    /\ \A k \in 1..Len(ship.events) : \A id \in Ids(ship) :
          Affected(ship.characters[id], ship.events[k]) =>
              Cardinality(MemoriesOf(id, ship.events[k])) = 1
    /\ \A id \in Ids(ship) :
          Len(ship.characters[id].memories) =
              Cardinality({k \in 1..Len(ship.events) :
                              Affected(ship.characters[id], ship.events[k])})
    /\ \A k \in 1..Len(ship.events) : \A a \in Ids(ship), b \in Ids(ship) :
          \A i \in MemoriesOf(a, ship.events[k]), j \in MemoriesOf(b, ship.events[k]) :
              (ship.characters[a].memories[i].interpretation
                    = ship.characters[b].memories[j].interpretation)
                <=> (ship.characters[a].ideology = ship.characters[b].ideology)

\* C14 witness: an event has been processed that affected two characters of
\* one ideology and a third of another.
EventSeenByThreeCharacters ==
    /\ Len(ship.events) >= 1
    /\ \E a \in Ids(ship), b \in Ids(ship), c \in Ids(ship) :
          /\ a # b
          /\ ship.characters[a].ideology = ship.characters[b].ideology
          /\ ship.characters[a].ideology # ship.characters[c].ideology
          /\ \A x \in {a, b, c} : MemoriesOf(x, ship.events[1]) # {}

\* Character of src/character.py carries no group memberships and Event of
\* src/event_system.py names no affected groups.
OldGroups(c) == {}
OldAffectedGroups(event) == {}

\* C13: applying an event leaves every character unchanged whose group
\* memberships do not meet the event's affected groups.
EventLeavesUnaffectedUnchanged ==
    eventLast.op = "apply_event_impact" =>
        \A i \in 1..Len(event_system.characters) :
            OldGroups(eventLast.before[i]) \cap OldAffectedGroups(eventLast.event) = {}
                => event_system.characters[i] = eventLast.before[i]

ReturnedEventKeepsSeverity ==
    \A i \in 1..Len(event_system.returned) :
        event_system.returned[i].ref # 0 =>
            event_system.events[event_system.returned[i].ref].severity
                = event_system.returned[i].severity

\* C17: decay_relationships(rate) with rate >= 0 leaves the nodes, leaves no
\* edge that was not there, removes exactly the edges whose strength
\* max(0, strength - rate) is 0, writes that strength to the others, and no
\* get_relationships answer afterwards names a removed edge or a strength 0.
DecayFloorsAndRemoves ==
    socLast.op = "decay_relationships" =>
        LET before == socLast.before
            New(e) == IF before.edges[e].weight - socLast.rate > 0
                      THEN before.edges[e].weight - socLast.rate ELSE 0
        IN  /\ social_graph.nodes = before.nodes
            /\ DOMAIN social_graph.edges \subseteq DOMAIN before.edges
            /\ \A e \in DOMAIN before.edges :
                  IF New(e) = 0 THEN e \notin DOMAIN social_graph.edges
                  ELSE /\ e \in DOMAIN social_graph.edges
                       /\ social_graph.edges[e].weight = New(e)
                       /\ social_graph.edges[e].rel_type = before.edges[e].rel_type
            /\ \A a \in Names :
                  \A b \in DOMAIN get_relationships(social_graph, a) :
                      /\ get_relationships(social_graph, a)[b].strength # 0
                      /\ Edge(a, b) \in DOMAIN before.edges
                      /\ New(Edge(a, b)) # 0

\* C17 witness: one decay call has removed an edge and weakened another.
DecayRemovedAndWeakened ==
    /\ socLast.op = "decay_relationships"
    /\ socLast.rate > 0
    /\ \E e \in DOMAIN socLast.before.edges :
          socLast.before.edges[e].weight > 0 /\ e \notin DOMAIN social_graph.edges
    /\ \E e \in DOMAIN social_graph.edges :
          social_graph.edges[e].weight < socLast.before.edges[e].weight

\* C18: when decay_relationships is applied again and again with one rate > 0
\* and nothing else is called, the graph eventually has no edges and keeps
\* none.
DecayEmptiesGraph ==
    (socLast.rate > 0) => <>[](DOMAIN social_graph.edges = {})

\* C18 witness: a decay call with a rate > 0 has removed the last edges of a
\* graph, one of which earlier calls had weakened to a strength no
\* add_relationship gave it.
DecayedToEdgeFree ==
    /\ socLast.op = "decay_relationships"
    /\ socLast.rate > 0
    /\ DOMAIN socLast.before.edges # {}
    /\ DOMAIN social_graph.edges = {}
    /\ \E e \in DOMAIN socLast.before.edges :
          socLast.before.edges[e].weight \notin DecayWeights

\* C19: after update_relationship(a, b, t) with t cooperation or conflict the
\* a-b edge exists with strength clamp(prev + delta, 0, 1), delta +0.2 or -0.3
\* and prev 0 for a missing edge; the call with (b, a) gives the same graph;
\* no other edge is added, removed or changed.
InteractionSetsClampedStrength ==
    (socLast.op = "update_relationship" /\ socLast.t \in {"cooperation", "conflict"}) =>
        LET before == socLast.before
            ab == {socLast.a, socLast.b}
            prev == IF ab \in DOMAIN before.edges THEN before.edges[ab].weight ELSE 0
            sum == prev + (IF socLast.t = "cooperation" THEN 2 ELSE -3)
        IN  /\ ab \in DOMAIN social_graph.edges
            /\ social_graph.edges[ab].weight =
                  (IF sum < 0 THEN 0 ELSE IF sum > One THEN One ELSE sum)
            /\ social_graph = update_relationship(before, socLast.b, socLast.a, socLast.t)
            /\ DOMAIN social_graph.edges = DOMAIN before.edges \cup {ab}
            /\ \A e \in DOMAIN before.edges \ {ab} : social_graph.edges[e] = before.edges[e]
            /\ social_graph.nodes = before.nodes

\* C19 witness: a cooperation has taken an edge of strength 0.9 to 1.0 and the
\* call before it created an edge that was missing.
InteractionClampedAtOne ==
    /\ socLast.op = "update_relationship"
    /\ socLast.t = "cooperation"
    /\ socLast.n = 2
    /\ {socLast.a, socLast.b} \in DOMAIN socLast.before.edges
    /\ socLast.before.edges[{socLast.a, socLast.b}].weight = 9
    /\ social_graph.edges[{socLast.a, socLast.b}].weight = One
    /\ Cardinality(DOMAIN social_graph.edges) = 3

\* C20: an interaction changes the type of an existing edge only from neutral
\* to the type it implies (cooperation: friendship, conflict: conflict); a
\* non-neutral edge keeps its type and no existing edge becomes neutral.
TypeLeavesNeutralOnly ==
    socLast.op = "update_relationship" =>
        \A e \in DOMAIN socLast.before.edges :
            LET old == socLast.before.edges[e].rel_type
                new == social_graph.edges[e].rel_type
            IN  /\ e \in DOMAIN social_graph.edges
                /\ old # "neutral" => new = old
                /\ new = "neutral" => old = "neutral"
                /\ new # old =>
                      /\ e = {socLast.a, socLast.b}
                      /\ \/ socLast.t = "cooperation" /\ new = "friendship"
                         \/ socLast.t = "conflict" /\ new = "conflict"

\* C20 witness: a conflict has met an edge that an earlier cooperation had
\* turned from neutral into a friendship, and the edge is still a friendship.
FriendshipSurvivedConflict ==
    /\ socLast.op = "update_relationship"
    /\ socLast.t = "conflict"
    /\ socLast.n = 2
    /\ {socLast.a, socLast.b} \in DOMAIN socLast.before.edges
    /\ socLast.before.edges[{socLast.a, socLast.b}].rel_type = "friendship"
    /\ social_graph.edges[{socLast.a, socLast.b}].rel_type = "friendship"

\* C21: add_relationship called with a character that is not in the graph
\* fails with a NotFoundError instead of returning.
AddRelationshipRaisesOnUnknown ==
    (/\ socLast.op = "add_relationship"
     /\ (socLast.a \notin socLast.before.nodes \/ socLast.b \notin socLast.before.nodes))
        => socLast.raised = "NotFoundError"

\* C22: add_character with a name that is already a node leaves nodes, node
\* attributes and edges as they were; adding the same character a second time
\* gives the state of adding it once.
AddCharacterIsIdempotent ==
    socLast.op = "add_character" =>
        /\ socLast.character.name \in socLast.before.nodes => social_graph = socLast.before
        /\ add_character(social_graph, socLast.character) = social_graph

\* C22 witness: a character object with another extraversion was added under
\* the name of a node that has an edge.
SameNameAddedAgain ==
    /\ socLast.op = "add_character"
    /\ socLast.character.name \in socLast.before.nodes
    /\ socLast.before.character[socLast.character.name] # socLast.character
    /\ \E e \in DOMAIN social_graph.edges : socLast.character.name \in e

\* C23: get_most_influential_character returns None exactly for a graph
\* without nodes; otherwise the character of a node whose degree + extraversion
\* is maximal, the first added of the nodes with that score.
MostInfluentialIsFirstMaximal ==
    socLast.op = "get_most_influential_character" =>
        LET g == socLast.before
            Score(n) == One * degree(g, n) + g.character[n].extraversion
            Pos(n) == CHOOSE i \in 1..Len(g.order) : g.order[i] = n
        IN  /\ (socLast.result = {}) <=> (g.nodes = {})
            /\ g.nodes # {} =>
                 \E n \in g.nodes :
                    /\ socLast.result = {g.character[n]}
                    /\ \A m \in g.nodes : Score(m) <= Score(n)
                    /\ \A m \in g.nodes : Score(m) = Score(n) => Pos(n) <= Pos(m)

\* C23 witness: the call chose between two nodes of equal score, one of them
\* by degree and the other by extraversion, and returned neither the first
\* nor the last node added.
TieBrokenByInsertionOrder ==
    /\ socLast.op = "get_most_influential_character"
    /\ Len(social_graph.order) = 3
    /\ socLast.result = {social_graph.character[social_graph.order[2]]}
    /\ InfluenceScore(social_graph, social_graph.order[3])
          = InfluenceScore(social_graph, social_graph.order[2])
    /\ degree(social_graph, social_graph.order[3]) # degree(social_graph, social_graph.order[2])

\* C24: every alliance that is not flagged broken has at least 2 members, after
\* any sequence of _form_alliance, add_member, remove_member and
\* _update_alliances.
UnbrokenAllianceHasTwoMembers ==
    \A i \in 1..Len(ship.alliances) :
        ~ship.alliances[i].broken => Cardinality(ship.alliances[i].members) >= 2

\* C24 witness: remove_member has left an alliance with fewer than 2 members,
\* and the alliance is flagged broken.
RemovalBrokeAlliance ==
    /\ shipLast.op = "remove_member"
    /\ Cardinality(ship.alliances[shipLast.a].members) < 2
    /\ ship.alliances[shipLast.a].broken

\* C25: after _update_alliances every alliance that is not flagged broken has
\* strength >= 20, whatever add_member, remove_member and perturbations came
\* before.
UnbrokenAllianceIsStrongAfterUpdate ==
    shipLast.op = "update" =>
        \A i \in 1..Len(ship.alliances) :
            ~ship.alliances[i].broken => ship.alliances[i].strength >= 20

\* C26: _form_alliance(a, b) with a in one alliance and b in another leaves
\* the number of alliances unchanged; only the first alliance of the list that
\* holds a or b gains members, every other alliance is untouched.
SeparateAlliancesNotMerged ==
    [][(shipLast'.op = "form" /\ shipLast'.calls = shipLast.calls + 1) =>
        LET a == shipLast'.a
            b == shipLast'.b
            old == ship.alliances
            new == ship'.alliances
            inA == {i \in 1..Len(old) : a \in old[i].members}
            inB == {i \in 1..Len(old) : b \in old[i].members}
        IN  (\E i \in inA, j \in inB : i # j) =>
                /\ Len(new) = Len(old)
                /\ LET first == CHOOSE i \in inA \cup inB : \A j \in inA \cup inB : i <= j
                   IN  /\ new[first].members = old[first].members \cup {a, b}
                       /\ \A k \in 1..Len(old) : k # first => new[k] = old[k]]_vars

\* C26 witness: the two characters last passed to _form_alliance were in two
\* alliances; the first now holds three members, the second still its two
\* at strength 50.
FormedAcrossTwoAlliances ==
    /\ shipLast.op = "form"
    /\ shipLast.inA /\ shipLast.inB
    /\ Len(ship.alliances) = 2
    /\ {shipLast.a, shipLast.b} \subseteq ship.alliances[1].members
    /\ Cardinality(ship.alliances[1].members) = 3
    /\ Cardinality(ship.alliances[2].members \cap {shipLast.a, shipLast.b}) = 1
    /\ Cardinality(ship.alliances[2].members) = 2
    /\ ship.alliances[2].strength = 50

\* C27 as stated: a new alliance has members {a, b}, strength 50, broken false
\* and created_day the current day; folding into an existing alliance raises
\* its strength by 5 for each character that was not yet a member.
FormStrengthPerNewMember ==
    [][(shipLast'.op = "form" /\ shipLast'.calls = shipLast.calls + 1) =>
        LET a == shipLast'.a
            b == shipLast'.b
            old == ship.alliances
            new == ship'.alliances
            hits == {i \in 1..Len(old) : a \in old[i].members \/ b \in old[i].members}
        IN  IF hits = {}
            THEN /\ Len(new) = Len(old) + 1
                 /\ new[Len(new)].members = {a, b}
                 /\ new[Len(new)].strength = 50
                 /\ new[Len(new)].broken = FALSE
                 /\ new[Len(new)].created_day = ship.day
            ELSE LET first == CHOOSE i \in hits : \A j \in hits : i <= j
                 IN  new[first].strength = old[first].strength
                        + 5 * Cardinality({a, b} \ old[first].members)]_vars

\* C27 as the code has it: the same, but folding raises the strength by 10,
\* 5 for each of the two add_member calls, whoever was a member already.
FormStrengthPerAddCall ==
    [][(shipLast'.op = "form" /\ shipLast'.calls = shipLast.calls + 1) =>
        LET a == shipLast'.a
            b == shipLast'.b
            old == ship.alliances
            new == ship'.alliances
            hits == {i \in 1..Len(old) : a \in old[i].members \/ b \in old[i].members}
        IN  IF hits = {}
            THEN /\ Len(new) = Len(old) + 1
                 /\ new[Len(new)].members = {a, b}
                 /\ new[Len(new)].strength = 50
                 /\ new[Len(new)].broken = FALSE
                 /\ new[Len(new)].created_day = ship.day
                 /\ \A k \in 1..Len(old) : new[k] = old[k]
            ELSE LET first == CHOOSE i \in hits : \A j \in hits : i <= j
                 IN  /\ new[first].strength = old[first].strength + 10
                     /\ new[first].members = old[first].members \cup {a, b}]_vars

\* C27 witness: a character joined the only alliance through one of its
\* members; the alliance went from strength 50 to 60 with one new member.
FoldedOneNewMember ==
    /\ shipLast.op = "form"
    /\ shipLast.inA # shipLast.inB
    /\ shipLast.calls = 2
    /\ Len(ship.alliances) = 1
    /\ ship.alliances[1].members = {4, 6, 9}
    /\ ship.alliances[1].strength = 60
    /\ ship.alliances[1].created_day = ship.day

\* C28: when check_for_leadership_change runs with the incumbent's trust below
\* 40 and the top challenger fails the margin test, no role changes and every
\* challenger's stress or influence differs from what it was before the call.
FailedChallengeIsPenalised ==
    [][(/\ simLast'.op = "check_for_leadership_change"
        /\ simLast'.weak /\ simLast'.challenger # 0 /\ ~simLast'.margin) =>
            /\ Roles(sim') = Roles(sim)
            /\ \A i \in 1..Len(Candidates(sim)) :
                  LET c == Candidates(sim)[i]
                  IN  \/ sim'.characters[c].stress # sim.characters[c].stress
                      \/ sim'.characters[c].influence # sim.characters[c].influence]_vars

\* C29: every character's influence is >= 0 after any number of simulate_day
\* calls, whatever the protests and failed mutinies took from it.
InfluenceNeverNegative ==
    \A id \in Ids(ship) : ship.characters[id].influence >= 0

\* emotional_impact arguments of add_memory.
MemoryImpacts == {-250, 3, 250}

\* C30: a character's memory only grows at its end: every step keeps the
\* memories it found as a prefix, recall_event included; add_memory appends
\* exactly one memory, leaves the stored ones as they were and sets stress to
\* clamp(stress + 0.5 * emotional_impact, 0, 100).
MemoryIsAppendOnly ==
    /\ [](\A id \in Ids(ship) : \A impact \in MemoryImpacts :
            LET c == ship.characters[id]
                n == Len(c.memories)
                r == add_memory(c, ship.day, "event", "interpretation",
                                Scaled(impact), ship.order)
                sum == c.stress + (Scaled(impact) \div 2)
            IN  /\ Len(r.memories) = n + 1
                /\ \A i \in 1..n : r.memories[i] = c.memories[i]
                /\ r.memories[n + 1] =
                      [day |-> ship.day, event |-> "event",
                       interpretation |-> "interpretation",
                       emotional_impact |-> Scaled(impact), witnesses |-> ship.order]
                /\ r.stress = (IF sum < 0 THEN 0
                               ELSE IF sum > Scaled(100) THEN Scaled(100) ELSE sum)
                /\ \A keyword \in {"FOOD", "fight", "cold"} :
                      Len(recall_event(c, keyword)) <= n)
    /\ [][\A id \in Ids(ship) :
            LET old == ship.characters[id].memories
                new == ship'.characters[id].memories
            IN  /\ Len(old) <= Len(new)
                /\ \A i \in 1..Len(old) : new[i] = old[i]]_vars

\* C30 witness: a character holds the memories of two events in the order the
\* events were processed, and recall_event finds one of the two.
TwoMemoriesInOrder ==
    \E id \in Ids(ship) :
        /\ Len(ship.characters[id].memories) = 2
        /\ Len(ship.events) = 2
        /\ ship.characters[id].memories[1].event = ship.events[1].description
        /\ ship.characters[id].memories[2].event = ship.events[2].description
        /\ ship.characters[id].memories[1].day < ship.characters[id].memories[2].day
        /\ Len(recall_event(ship.characters[id], "FOOD")) = 1

\* C31: make_decision returns an action of maximal score, the first of the
\* order cooperate, rebel, take_risk, seek_resources among those of maximal
\* score; the result is the same for a character that differs in anything but
\* traits, needs, emotions, psychological state and hidden agenda.
DecisionIsFirstMaximal ==
    agentLast.op = "make_decision" =>
        LET scores == DecisionScores(agent)
            Pos(a) == CHOOSE i \in 1..4 : DecisionOrder[i] = a
            decision == agentLast.before
        IN  /\ decision \in {"cooperate", "rebel", "take_risk", "seek_resources"}
            /\ \A a \in DOMAIN scores : scores[a] <= scores[decision]
            /\ \A a \in DOMAIN scores :
                  scores[a] = scores[decision] => Pos(decision) <= Pos(a)
            /\ decision = make_decision([agent EXCEPT !.name = "Bob", !.health = 0,
                                                       !.trauma_points = AttrOne])

\* C31 witness: rebel and seek_resources tied above the other two, and the
\* decision was rebel.
RebelWonTie ==
    /\ agentLast.op = "make_decision"
    /\ agentLast.before = "rebel"
    /\ DecisionScores(agent).rebel = DecisionScores(agent).seek_resources
    /\ DecisionScores(agent).cooperate < DecisionScores(agent).rebel
    /\ DecisionScores(agent).take_risk < DecisionScores(agent).rebel
    /\ agent.psychological_state = "angry"

\* C32: an update_needs call whose changes name a need the agent does not
\* have creates no Need, leaves every need it does not name and every other
\* field as it was, and still updates the needs it names that are present.
UnknownNeedNamesIgnored ==
    [][(agentLast'.op = "update_needs" /\ agentLast'.calls = agentLast.calls + 1
        /\ ~(DOMAIN agentLast'.changes \subseteq NeedNames(agent.needs)))
       => /\ Len(agent'.needs) = Len(agent.needs)
          /\ [agent' EXCEPT !.needs = agent.needs] = agent
          /\ \A i \in 1..Len(agent.needs) :
                LET old == agent.needs[i]
                    new == agent'.needs[i]
                IN  /\ [new EXCEPT !.value = old.value] = old
                    /\ IF old.name \in DOMAIN agentLast'.changes
                       THEN new.value =
                              Min(Scaled(100),
                                  Max(0, old.value + agentLast'.changes[old.name]))
                       ELSE new.value = old.value]_vars

\* C32 witness: one call named hunger and the absent respect, and hunger moved.
UnknownNameBesideKnownOne ==
    /\ agentLast.op = "update_needs"
    /\ DOMAIN agentLast.changes = {"hunger", "respect"}
    /\ agentLast.before[1].name = "hunger"
    /\ agent.needs[1].value # agentLast.before[1].value
    /\ agent.needs[2] = agentLast.before[2]

\* C33: get_critical_needs returns, in the insertion order of the needs and
\* without repetition, exactly the names whose value is strictly below the
\* threshold, on the values the last update_needs left, and it does not
\* change the agent.
CriticalNeedsAreThoseBelowThreshold ==
    /\ [](agentLast.op = "get_critical_needs" =>
            LET result == agentLast.critical
                below == {i \in 1..Len(agent.needs) :
                            agent.needs[i].value < agent.needs[i].critical_threshold}
                Pos(name) == CHOOSE i \in 1..Len(agent.needs) : agent.needs[i].name = name
            IN  /\ {result[k] : k \in 1..Len(result)} = {agent.needs[i].name : i \in below}
                /\ Len(result) = Cardinality(below)
                /\ \A j \in 1..Len(result), k \in 1..Len(result) :
                      j < k => Pos(result[j]) < Pos(result[k]))
    /\ [][agentLast'.op = "get_critical_needs" => agent' = agent]_vars

\* C33 witness: hunger was 10, update_needs added 25, and get_critical_needs
\* then returned safety alone.
HungerNoLongerCritical ==
    /\ agentLast.op = "get_critical_needs"
    /\ agentLast.calls > 0
    /\ agentLast.before[1].name = "hunger" /\ agentLast.before[1].value = Scaled(10)
    /\ "hunger" \in DOMAIN agentLast.changes
    /\ agentLast.changes["hunger"] = Scaled(25)
    /\ agent.needs[1].value = Scaled(35)
    /\ agentLast.critical = <<"safety">>

\* C34: the steps of simulate_day come in the order environment (heading,
\* danger, need decay), events, interactions and alliances, discussion,
\* protest, mutiny, sinking check; heading falls and danger is recomputed only
\* in the first, events are appended only in the second, alliances change
\* only in the third, captain_authority only in protest and mutiny; the sinking
\* check leaves the day alone when the ship sinks and adds exactly 1 when it
\* does not, and no other step changes the day.
PhasesOfADayInOrder ==
    [][ship' # ship =>
        LET Rank(pc) == CASE pc = "idle" -> 0 [] pc = "events" -> 1
                          [] pc = "interact" -> 2 [] pc = "alliances" -> 3
                          [] pc = "discussion" -> 4 [] pc = "protest" -> 5
                          [] pc = "mutiny" -> 6 [] pc = "sinking" -> 7
                          [] OTHER -> 8
        IN  /\ Rank(ship.pc) < 8
            /\ \/ Rank(ship'.pc) = Rank(ship.pc) + 1
               \/ ship.pc = "interact" /\ ship'.pc = "interact" /\ ship'.idx = ship.idx + 1
               \/ ship.pc = "sinking" /\ ship'.pc = "idle"
               \/ ship.pc = "discussion" /\ ship'.pc = "raised"
               \/ ship.pc = "mutiny" /\ ship'.pc = "ValueError"
            /\ ship.pc = "idle" =>
                  /\ ship'.heading = Max(0, ship.heading - 2)
                  /\ ship'.danger_level = (360 - ship'.heading) * 120
            /\ ship'.danger_level # ship.danger_level => ship.pc = "idle"
            /\ ship'.events # ship.events => ship.pc = "events"
            /\ ship'.alliances # ship.alliances => ship.pc \in {"interact", "alliances"}
            /\ ship'.captain_authority # ship.captain_authority =>
                  ship.pc \in {"protest", "mutiny"}
            /\ ship'.heading # ship.heading => ship.pc \in {"idle", "mutiny"}
            /\ IF ship.pc = "sinking"
               THEN /\ ship'.pc = "idle" => ship'.day = ship.day + 1
                    /\ ship'.pc = "sunk" => ship'.day = ship.day
                    /\ ship'.pc \in {"idle", "sunk"}
                    /\ [ship' EXCEPT !.day = ship.day, !.pc = ship.pc] = ship
               ELSE ship'.day = ship.day]_vars

\* C34 witness: a ship that sank during its second day, after an event and an
\* alliance.
SankOnSecondDay ==
    /\ ship.pc = "sunk"
    /\ ship.day = 2
    /\ ship.events # <<>>
    /\ ship.alliances # <<>>

\* C36: no step of simulate_day changes a character's trust_in_captain; on a
\* ship where at most half of the characters have trust below 30 the heading
\* is 0 in every state, danger_level is 100 once a day has begun, and the
\* mutiny step leaves captain_authority and heading as they were.
TrustIsNeverWrittenSoNoMutinySucceeds ==
    /\ []((2 * Cardinality({id \in Ids(ship) :
                ship.characters[id].trust_in_captain < Scaled(30)}) <= Len(ship.order))
          => /\ ship.heading = 0
             /\ (ship.day > 1 \/ ship.pc # "idle") => ship.danger_level = Scaled(100))
    /\ [][/\ \A id \in Ids(ship) :
                ship'.characters[id].trust_in_captain = ship.characters[id].trust_in_captain
          /\ (/\ ship.pc = "mutiny"
              /\ 2 * Cardinality({id \in Ids(ship) :
                    ship.characters[id].trust_in_captain < Scaled(30)}) <= Len(ship.order))
             => /\ ship'.captain_authority = ship.captain_authority
                /\ ship'.heading = ship.heading
                /\ ship'.pc = "sinking"]_vars

\* C36 witness: with two of five distrusting the captain a mutiny was attempted
\* and failed, the mutineers paid for it and the ship still heads north.
MutinyFailedForLackOfSupport ==
    /\ ship.pc = "sinking"
    /\ ship.captain_authority = 40
    /\ Cardinality({id \in Ids(ship) :
            ship.characters[id].trust_in_captain < Scaled(30)}) = 2
    /\ ship.characters[4].influence = Scaled(25)
    /\ ship.heading = 0

\* C39: in every state of a run of simulate_day the alliances sets of the
\* characters are symmetric and hold no character's own id, and every
\* _form_alliance of _character_interactions allies a pair that was not
\* allied before.
AllySetsSymmetricIrreflexive ==
    /\ [](\A a \in Ids(ship) :
            /\ a \notin ship.characters[a].alliances
            /\ \A b \in ship.characters[a].alliances :
                  b \in Ids(ship) /\ a \in ship.characters[b].alliances)
    /\ [][(ship.pc = "interact" /\ ship'.alliances # ship.alliances)
          => \E a \in Ids(ship) : \E b \in Ids(ship) \ {a} :
                /\ b \notin ship.characters[a].alliances
                /\ a \notin ship.characters[b].alliances
                /\ ship'.characters =
                      [ship.characters EXCEPT
                          ![a].alliances = ship.characters[a].alliances \cup {b},
                          ![b].alliances = ship.characters[b].alliances \cup {a}]]_vars

\* C39 witness: a character with two allies, each of them its ally in return.
AlliedWithTwo ==
    \E a \in Ids(ship) :
        /\ Cardinality(ship.characters[a].alliances) >= 2
        /\ \A b \in ship.characters[a].alliances : a \in ship.characters[b].alliances

\* C35: after elect_spokesperson the spokesperson of a group without members
\* is none; otherwise it is a member whose speaking_ability + influence no
\* member exceeds, the first such member in insertion order, and among the
\* members is_spokesperson is true of the spokesperson and of nobody else.
ElectedIsFirstMaximalMember ==
    simLast.op = "elect_spokesperson" =>
        LET g == sim.groups[simLast.group]
            members == g.members
            Score(id) == sim.characters[id].speaking_ability + sim.characters[id].influence
        IN  IF members = <<>> THEN g.spokesperson = 0
            ELSE \E i \in 1..Len(members) :
                    /\ g.spokesperson = members[i]
                    /\ \A j \in 1..Len(members) : Score(members[j]) <= Score(members[i])
                    /\ \A j \in 1..(i - 1) : Score(members[j]) < Score(members[i])
                    /\ \A j \in 1..Len(members) :
                          sim.characters[members[j]].is_spokesperson <=> (j = i)

\* C35 witness: the Captain and the Worker tie, the Worker joined first and
\* was elected.
TieElectedEarlierMember ==
    /\ simLast.op = "elect_spokesperson"
    /\ sim.groups[simLast.group].members = <<2, 1>>
    /\ sim.groups[simLast.group].spokesperson = 2
    /\ ~sim.characters[1].is_spokesperson

\* C40: once every group has run elect_spokesperson, whatever add_member and
\* remove_member calls follow, a character's is_spokesperson is true exactly
\* when some group has it as spokesperson, and every group's spokesperson is
\* none or one of its members.
SpokespersonFlagMatchesGroups ==
    GroupDraws \subseteq simLast.elected =>
        /\ \A id \in DOMAIN sim.characters :
              sim.characters[id].is_spokesperson
                <=> \E g \in DOMAIN sim.groups : sim.groups[g].spokesperson = id
        /\ \A g \in DOMAIN sim.groups :
              \/ sim.groups[g].spokesperson = 0
              \/ \E i \in 1..Len(sim.groups[g].members) :
                    sim.groups[g].members[i] = sim.groups[g].spokesperson

\* C37: in a simulation built by setup_simulation and driven by run_day alone
\* the captain's trust_in_captain stays 70, so the guard trust < 40 of
\* check_for_leadership_change is never true, no call raises, and the captain
\* and the role of every character are the ones setup_simulation gave.
RunDayKeepsCaptainAndRoles ==
    /\ sim.pc = "running"
    /\ sim.captain = 1
    /\ sim.characters[1].trust_in_captain = Scaled(70)
    /\ ~AuthorityIsWeak(sim)
    /\ sim.characters[1].role = "captain"
    /\ sim.characters[2].role = "worker"
    /\ sim.characters[3].role = "spokesperson"

\* C37 witness: ten days have run, the two food shortages among them, and a
\* spokesperson more influential than the captain stands by.
TenDaysRun ==
    /\ simLast.op = "run_day"
    /\ sim.day = 11
    /\ sim.characters[2].stress = Scaled(60)
    /\ sim.groups["workers"].spokesperson = 3
    /\ sim.characters[3].influence > sim.characters[1].influence

\* C38: apply_event_impact of a catalog event on the caller's characters
\* completes without raising, whatever the list of characters.
CatalogImpactCompletes ==
    (/\ eventLast.op = "apply_event_impact"
     /\ \E i \in 1..Len(create_predefined_events) :
            eventLast.event.name = create_predefined_events[i].name)
    => event_system.pc = "running"
====
